---- MODULE Spec2Model ----
(***************************************************************************)
(* Tape-device discovery and mount-device selection of the LTFS GUI        *)
(* (src/ltfs_gui.py): LTFSManager.refresh_drives with its probes, and the  *)
(* LTFSGui handlers that turn the scan into the device handed to a mount;  *)
(* the command runner with the mount, unmount, format and listing          *)
(* operations built on it.                                                 *)
(*                                                                         *)
(* Strings are sequences of one-character strings, so that glob, regular   *)
(* expression matching and sorted() are computed character by character.   *)
(***************************************************************************)
EXTENDS Integers, Sequences, FiniteSets, TLC

VARIABLES
    dev,                \* /dev as the latest scan (at the start: the first scan) finds
                        \* it: name -> [kind, mt, open]
    mt_installed,       \* whether that scan can launch the mt binary
    tape_drives,        \* LTFSManager.tape_drives
    physical_drives,    \* LTFSManager.physical_drives
    permission_issues,  \* LTFSManager.permission_issues
    single_drive_mode,  \* LTFSManager.single_drive_mode
    scan_result,        \* how the latest refresh_drives call ended: none, returned, raised
    phase,              \* new, gui_init, running, dead
    mount_device_var,   \* LTFSGui.mount_device_var (a StringVar)
    mount_device_combo, \* values of LTFSGui.mount_device_combo
    operator_chose,     \* the operator edited mount_device_var since it was last defaulted
    mount_request,      \* device the latest handler handed to the mount worker, "" if none
    dialog,             \* the message box the latest handler or worker showed
    twin,               \* the fields of a second LTFSManager of the same process, and
                        \* how its latest refresh_drives call relates to the first one's
    call,               \* the tape operation under way: its arguments, what each command
                        \* it can issue will do, and how far it has got
    commands,           \* the command lines the operations of call handed to
                        \* subprocess.run so far, in order
    result,             \* what the operation returned
    mounted_tapes,      \* LTFSManager.mounted_tapes
    mounted_list,       \* refresh_mounted_list: what list_mounted_tapes returned and the
                        \* items of mounted_listbox
    shadow,             \* a run of the same listing in a program state that differs in
                        \* mounted_tapes only
    history,            \* the mount_tape and unmount_tape calls that returned, in order
    format_device_var,      \* the device field of the format tab
    diagnostics_device_var, \* the device field of the diagnostics tab
    workers,            \* the worker threads: the device each works on and the command
                        \* lines it has still to run, the first of them running now
    full_diagnostic,    \* the full diagnostic thread: the sub-test it starts next
    mount_threads,      \* the mount and unmount threads of the mount tab: the call each
                        \* makes and how far it is
    last_success,       \* for each mount point, which of mount and unmount the latest
                        \* command that succeeded on it was
    log_text,           \* the log widget, once setup_log_tab has made it, and its lines
    pending_log_messages,   \* the attribute _pending_log_messages, while there is one
    log_history,        \* the entries log_message was called with since the log was last
                        \* cleared, and how many of them setup_log_tab inserted
    auto_refresh_var,   \* the auto-refresh checkbox
    auto_refresh_pending,   \* the auto_refresh_status callbacks waiting in root.after
    themes,             \* the theme table
    current_theme_name, \* the key of the selected theme
    dark_mode,          \* the legacy dark mode checkbox
    theme_combo,        \* the theme dropdown: its values and its text
    root_bg,            \* the background colour of the root window
    apply_result        \* how the latest apply_selected_theme ended

vars == <<dev, mt_installed, tape_drives, physical_drives, permission_issues,
          single_drive_mode, scan_result, phase, mount_device_var,
          mount_device_combo, operator_chose, mount_request, dialog, twin,
          call, commands, result, mounted_tapes, mounted_list, shadow, history,
          format_device_var, diagnostics_device_var, workers, full_diagnostic,
          mount_threads, last_success,
          log_text, pending_log_messages, log_history, auto_refresh_var, auto_refresh_pending,
          themes, current_theme_name, dark_mode, theme_combo, root_bg, apply_result>>

managerVars == <<tape_drives, physical_drives, permission_issues, single_drive_mode>>
guiVars == <<mount_device_var, mount_device_combo, operator_chose, mount_request, dialog>>
\* what the scans, the mount tab and the single tape operations leave alone
tabVars == <<format_device_var, diagnostics_device_var>>
threadVars == <<workers, full_diagnostic>>
raceVars == <<mount_threads, last_success>>
logVars == <<log_text, pending_log_messages, log_history>>
timerVars == <<auto_refresh_var, auto_refresh_pending>>
themeVars == <<themes, current_theme_name, dark_mode, theme_combo, root_bg, apply_result>>
windowVars == <<logVars, timerVars, themeVars>>
sessionVars == <<history, threadVars, raceVars, windowVars>>
opVars == <<call, commands, result, mounted_tapes, mounted_list, shadow, sessionVars, tabVars>>

----------------------------------------------------------------------------
(* Bounds *)

\* directory entries present under /dev in one scan
MaxEntries == 4
\* deviations from a healthy system in one scan: an entry that is no character
\* device, a failing probe, a failing open, a missing mt binary
MaxFaults == 1

----------------------------------------------------------------------------
(* Strings *)

EmptyStr == <<>>

\* the characters that occur, in code point order ('/' < digits < lower case)
CodePoints ==
    <<"/", "0", "1", "2", "3", "4", "5", "6", "7", "8", "9",
      "a", "b", "c", "d", "e", "f", "g", "h", "i", "j", "k", "l", "m",
      "n", "o", "p", "q", "r", "s", "t", "u", "v", "w", "x", "y", "z">>

OrdTable ==
    [c \in {CodePoints[i] : i \in 1..Len(CodePoints)} |->
        CHOOSE i \in 1..Len(CodePoints) : CodePoints[i] = c]

\* the rank of a character, ordered as Python's ord() orders it
Ord(c) == OrdTable[c]

Digits == {"0", "1", "2", "3", "4", "5", "6", "7", "8", "9"}

ModeLetters == {"a", "l", "m"}

\* Python's str < str: the first differing character decides, a proper prefix is smaller
RECURSIVE StrLess(_, _)
StrLess(a, b) ==
    IF b = <<>> THEN FALSE
    ELSE IF a = <<>> THEN TRUE
    ELSE IF Head(a) = Head(b) THEN StrLess(Tail(a), Tail(b))
    ELSE Ord(Head(a)) < Ord(Head(b))

StartsWith(s, p) == Len(s) >= Len(p) /\ SubSeq(s, 1, Len(p)) = p

\* a sort in descending order, as sorted(xs, reverse=True) gives it
RECURSIVE SortedDescending(_)
SortedDescending(S) ==
    IF S = {} THEN <<>>
    ELSE LET m == CHOOSE x \in S : \A y \in S \ {x} : StrLess(y, x)
         IN  <<m>> \o SortedDescending(S \ {m})

\* sorted(xs) of a collection of distinct strings: ascending, smallest first
RECURSIVE Sorted(_)
Sorted(S) ==
    IF S = {} THEN <<>>
    ELSE LET m == CHOOSE x \in S : \A y \in S \ {x} : StrLess(x, y)
         IN  <<m>> \o Sorted(S \ {m})

Range(s) == {s[i] : i \in 1..Len(s)}

----------------------------------------------------------------------------
(* The device namespace and the probes *)

st0 == <<"s", "t", "0">>
st0a == <<"s", "t", "0", "a">>
st1 == <<"s", "t", "1">>
st1a == <<"s", "t", "1", "a">>
st10 == <<"s", "t", "1", "0">>
st1x == <<"s", "t", "1", "x">>
nst0 == <<"n", "s", "t", "0">>
nst0l == <<"n", "s", "t", "0", "l">>
stdin == <<"s", "t", "d", "i", "n">>

\* names that may exist under /dev
DevNames == {st0, st0a, st1, st1a, st10, st1x, nst0, nst0l, stdin}

\* the names among them that come and go while the application runs
GuiDevNames == {st0, st0a, st1, st1a}

DevDir == <<"/", "d", "e", "v", "/">>

\* str(Path('/dev') / name)
DevPath(name) == DevDir \o name

\* subprocess.run(['mt', '-f', device, 'status'], timeout=5): exit 0; exit non-zero
\* with 'No such device' on stderr; exit non-zero with other text; exit non-zero with
\* stderr bytes that are not UTF-8; no exit within the timeout
MtOutcomes == {"exit0", "no_such_device", "other_error", "undecodable", "timeout"}
\* open(device, 'rb')
OpenOutcomes == {"ok", "permission_denied", "os_error"}

Absent == [kind |-> "absent", mt |-> "exit0", open |-> "ok"]
Healthy == [kind |-> "char", mt |-> "exit0", open |-> "ok"]

PresentEntries ==
    {[kind |-> "other", mt |-> "exit0", open |-> "ok"]}
    \cup [kind : {"char"}, mt : MtOutcomes, open : OpenOutcomes]

\* what an entry may be while the application runs: gone, healthy, unreadable for
\* the user, not answering the probe, or no character device
GuiEntries ==
    {Absent, Healthy,
     [kind |-> "char", mt |-> "exit0", open |-> "permission_denied"],
     [kind |-> "char", mt |-> "timeout", open |-> "ok"],
     [kind |-> "other", mt |-> "exit0", open |-> "ok"]}

Present(d) == {n \in DevNames : d[n].kind # "absent"}

TotalFaults(d, mt) ==
    Cardinality({n \in DevNames : d[n].kind = "other"})
    + Cardinality({n \in DevNames : d[n].mt # "exit0"})
    + Cardinality({n \in DevNames : d[n].open # "ok"})
    + (IF mt THEN 0 ELSE 1)

WithinBounds(d, mt) ==
    /\ Cardinality(Present(d)) <= MaxEntries
    /\ TotalFaults(d, mt) <= MaxFaults

----------------------------------------------------------------------------
(* LTFSManager *)

primary_device == DevPath(st0)

ReservedNames == {<<"s", "t", "d", "i", "n">>, <<"s", "t", "d", "o", "u", "t">>,
                  <<"s", "t", "d", "e", "r", "r">>}

\* Path('/dev').glob('st*') yields the entries whose name starts with "st"
GlobSt(name) == StartsWith(name, <<"s", "t">>)

RECURSIVE LeadingDigits(_)
LeadingDigits(s) ==
    IF s # <<>> /\ Head(s) \in Digits THEN 1 + LeadingDigits(Tail(s)) ELSE 0

\* \d+[alm]?$ matched against s
DigitsAndMode(s) ==
    LET k == LeadingDigits(s)
    IN  /\ k >= 1
        /\ \/ Len(s) = k
           \/ Len(s) = k + 1 /\ s[k + 1] \in ModeLetters

\* the pattern without its closing $: a prefix of the name matches
ReMatchOverrideUnanchored(name) ==
    /\ StartsWith(name, <<"s", "t">>)
    /\ LeadingDigits(SubSeq(name, 3, Len(name))) >= 1

\* re.match(r'st\d+[alm]?$', name)
ReMatchOverride(name) ==
    /\ StartsWith(name, <<"s", "t">>)
    /\ DigitsAndMode(SubSeq(name, 3, Len(name)))

\* drive_pattern.match(drive) for r'/dev/(n?)st(\d+)([alm]?)$': the groups, or no match
DrivePatternMatch(drive) ==
    LET rest == IF StartsWith(drive, DevDir) THEN SubSeq(drive, 6, Len(drive)) ELSE <<>>
        g1   == IF rest # <<>> /\ Head(rest) = "n" THEN <<"n">> ELSE <<>>
        body == SubSeq(rest, Len(g1) + 1, Len(rest))
        tl   == SubSeq(body, 3, Len(body))
        k    == LeadingDigits(tl)
    IN  IF StartsWith(drive, DevDir) /\ StartsWith(body, <<"s", "t">>) /\ DigitsAndMode(tl)
        THEN [matched |-> TRUE, n |-> g1, num |-> SubSeq(tl, 1, k),
              suffix |-> SubSeq(tl, k + 1, Len(tl))]
        ELSE [matched |-> FALSE, n |-> <<>>, num |-> <<>>, suffix |-> <<>>]

\* _get_mode_description
GetModeDescription(mode_suffix) ==
    CASE mode_suffix = "default" -> "Default (compression enabled)"
      [] mode_suffix = "a" -> "Auto-density selection"
      [] mode_suffix = "l" -> "Low/Legacy density mode"
      [] mode_suffix = "m" -> "Medium density mode"
      [] OTHER -> "Mode"

\* every failing open counted as a permission problem
CanAccessDeviceOpenedOnly(d, name) ==
    d[name].open = "ok"

\* _can_access_device: open(device, 'rb') under the scan's /dev
CanAccessDevice(d, name) ==
    CASE d[name].open = "ok" -> TRUE
      [] d[name].open = "permission_denied" -> FALSE
      [] OTHER -> TRUE

\* is_char_device() of /dev/st0 (exists() is implied by it)
PrimaryPresent(d) == d[st0].kind = "char"

\* the entries the override loop probes with mt
Candidates(d) ==
    {name \in DevNames :
        /\ d[name].kind # "absent"
        /\ GlobSt(name)
        /\ d[name].kind = "char"
        /\ name \notin ReservedNames
        /\ ReMatchOverride(name)
        /\ DevPath(name) # primary_device}

\* every probe that ended within the timeout admits the device
ProbeAdmitsAnyExit(e) ==
    e.mt # "timeout"

\* the condition under which a probed device is appended to override_devices
ProbeAdmits(e) ==
    e.mt = "exit0" \/ e.mt = "other_error"

\* subprocess.run raises FileNotFoundError when mt is missing, and stderr.decode()
\* raises UnicodeDecodeError; the except clause catches neither
ProbeRaises(e, mt) ==
    ~mt \/ e.mt = "undecodable"

OverrideDevices(d) ==
    {DevPath(name) : name \in {c \in Candidates(d) : ProbeAdmits(d[c])}}

PrimaryList(d) == IF PrimaryPresent(d) THEN <<primary_device>> ELSE <<>>

\* the primary device appended after the override devices
CollectDrivesPrimaryLast(d) == Sorted(OverrideDevices(d)) \o PrimaryList(d)

\* tape_drives at the end of the collection phase
CollectDrives(d) == PrimaryList(d) \o Sorted(OverrideDevices(d))

\* the list not emptied at the start of a scan: the stored entries stay in it
LocalPermissionIssuesKept(d) ==
    permission_issues
    \o (IF PrimaryPresent(d) /\ ~CanAccessDevice(d, st0) THEN <<primary_device>> ELSE <<>>)
    \o Sorted({DevPath(name) : name \in
                 {c \in Candidates(d) : ProbeAdmits(d[c]) /\ ~CanAccessDevice(d, c)}})

\* the local list permission_issues before it is stored
LocalPermissionIssues(d) ==
    (IF PrimaryPresent(d) /\ ~CanAccessDevice(d, st0) THEN <<primary_device>> ELSE <<>>)
    \o Sorted({DevPath(name) : name \in
                 {c \in Candidates(d) : ProbeAdmits(d[c]) /\ ~CanAccessDevice(d, c)}})

\* list(set(xs)): the distinct elements, in an order the hash seed decides
ListOfSet(xs) ==
    LET S == Range(xs)
    IN  {s \in [1..Cardinality(S) -> S] : Range(s) = S}

PhysicalId(drive_num) == <<"d", "r", "i", "v", "e">> \o drive_num

NoDrives == [x \in {} |-> x]

\* the grouping loop creating the entry of a drive anew for every device of it
RECURSIVE GroupDrivesOverwriting(_, _)
GroupDrivesOverwriting(drives, pd) ==
    IF drives = <<>> THEN pd
    ELSE
      LET drive == Head(drives)
          match == DrivePatternMatch(drive)
      IN  IF ~match.matched THEN GroupDrivesOverwriting(Tail(drives), pd)
          ELSE
            LET mode_suffix == IF match.suffix = <<>> THEN "default" ELSE match.suffix[1]
                physical_id == PhysicalId(match.num)
                mode_info == [device |-> drive, mode |-> mode_suffix,
                              description |-> GetModeDescription(mode_suffix)]
                fresh == [rewinding |-> IF match.n = <<>> THEN <<mode_info>> ELSE <<>>,
                          non_rewinding |-> IF match.n = <<>> THEN <<>> ELSE <<mode_info>>,
                          drive_number |-> match.num]
            IN  GroupDrivesOverwriting(Tail(drives),
                    [x \in DOMAIN pd \cup {physical_id} |->
                        IF x = physical_id THEN fresh ELSE pd[x]])

RECURSIVE GroupDrives(_, _)
GroupDrives(drives, pd) ==
    IF drives = <<>> THEN pd
    ELSE
      LET drive == Head(drives)
          match == DrivePatternMatch(drive)
      IN  IF ~match.matched THEN GroupDrives(Tail(drives), pd)
          ELSE
            LET rewinding   == match.n = <<>>
                drive_num   == match.num
                mode_suffix == IF match.suffix = <<>> THEN "default" ELSE match.suffix[1]
                physical_id == PhysicalId(drive_num)
                pd1 == IF physical_id \in DOMAIN pd THEN pd
                       ELSE pd @@ (physical_id :>
                                [rewinding |-> <<>>, non_rewinding |-> <<>>,
                                 drive_number |-> drive_num])
                mode_info == [device |-> drive, mode |-> mode_suffix,
                              description |-> GetModeDescription(mode_suffix)]
                pd2 == IF rewinding
                       THEN [pd1 EXCEPT ![physical_id].rewinding = Append(@, mode_info)]
                       ELSE [pd1 EXCEPT ![physical_id].non_rewinding = Append(@, mode_info)]
            IN  GroupDrives(Tail(drives), pd2)

ScanRaises(d, mt) == \E c \in Candidates(d) : ProbeRaises(d[c], mt)

\* the scan counting a drive-less and a multi-drive system as single-drive too
SingleDriveModeNotSeveral(pd) == Cardinality(DOMAIN pd) <= 1

\* line 118
SingleDriveMode(pd) == Cardinality(DOMAIN pd) = 1

\* the scan going on from the list the previous scan stored
InitialIssuesStale(self) == self.permission_issues

\* line 47: the scan's local list starts empty
InitialIssues(self) == <<>>

\* the fields of the manager whose scans the GUI shows
Self ==
    [tape_drives |-> tape_drives, physical_drives |-> physical_drives,
     permission_issues |-> permission_issues, single_drive_mode |-> single_drive_mode,
     scan_result |-> scan_result]

\* the fields LTFSManager.__init__ sets before its scan
FreshManager ==
    [tape_drives |-> <<>>, physical_drives |-> NoDrives, permission_issues |-> <<>>,
     single_drive_mode |-> FALSE, scan_result |-> "none"]

\* the fields a refresh_drives call can leave in a manager whose fields were self,
\* run against /dev contents d with mt present or not
ScanFields(self, d, mt) ==
    IF ScanRaises(d, mt)
    THEN \* the exception leaves the loop after lines 45-56 have run
         {[tape_drives |-> PrimaryList(d), physical_drives |-> NoDrives,
           permission_issues |-> self.permission_issues,
           single_drive_mode |-> self.single_drive_mode, scan_result |-> "raised"]}
    ELSE LET drives == CollectDrives(d)
             pd == GroupDrives(drives, NoDrives)
         IN  {[tape_drives |-> drives, physical_drives |-> pd, permission_issues |-> issues,
               single_drive_mode |-> SingleDriveMode(pd), scan_result |-> "returned"] :
                 issues \in ListOfSet(InitialIssues(self) \o LocalPermissionIssues(d))}

\* LTFSManager.refresh_drives of the GUI's manager
RefreshDrives(d, mt) ==
    /\ dev' = d
    /\ mt_installed' = mt
    /\ \E r \in ScanFields(Self, d, mt) :
         /\ tape_drives' = r.tape_drives
         /\ physical_drives' = r.physical_drives
         /\ permission_issues' = r.permission_issues
         /\ single_drive_mode' = r.single_drive_mode
         /\ scan_result' = r.scan_result

----------------------------------------------------------------------------
(* LTFSGui: the mount tab *)

\* the last listed device taken as the default
DefaultMountDeviceLast(drives, current) ==
    IF drives # <<>> THEN drives[Len(drives)] ELSE current

\* update_mount_tab_mode: /dev/st0 if listed, else the first listed device, else
\* whatever the variable holds
DefaultMountDevice(drives, current) ==
    IF primary_device \in Range(drives) THEN primary_device
    ELSE IF drives # <<>> THEN drives[1]
    ELSE current

\* get_selected_device falling back on the hard-coded primary device
GetSelectedDeviceOrPrimary(var, drives) ==
    IF var # EmptyStr THEN var
    ELSE IF drives # <<>> THEN drives[1]
    ELSE primary_device

\* get_selected_device: the variable, or the first listed device when it is empty
GetSelectedDevice(var, drives) ==
    IF var # EmptyStr THEN var
    ELSE IF drives # <<>> THEN drives[1]
    ELSE var

\* message boxes: what was shown, "none" when the latest handler showed nothing
NoDialog == [kind |-> "none", text |-> <<>>]

ErrorDialog(text) == [kind |-> "error", text |-> text]

InfoDialog(text) == [kind |-> "info", text |-> text]

\* line 1775
NoDeviceMessage == <<"Please specify a device.">>

\* the twin manager before it is used
NoTwin == [fields |-> FreshManager, same_inputs |-> FALSE, prior_differed |-> FALSE]

----------------------------------------------------------------------------
(* LTFSManager: the command runner and the tape operations built on it.      *)
(* A text is a sequence of pieces: the literal parts of an f-string and the  *)
(* characters of the values formatted into it.                               *)

\* what a process started by subprocess.run does: it exits with a return code
\* having written its two streams, or subprocess.run raises
Exited(command, returncode) ==
    [raised |-> FALSE, returncode |-> returncode,
     stdout |-> <<"stdout of: ">> \o command, stderr |-> <<"stderr of: ">> \o command,
     exception |-> EmptyStr]

LaunchFailure(command) ==
    [raised |-> TRUE, returncode |-> -1, stdout |-> EmptyStr, stderr |-> EmptyStr,
     exception |-> <<"exception of: ">> \o command]

OutcomeKinds == {"exit0", "exit1", "launch_failure"}

Outcome(command, kind) ==
    CASE kind = "exit0" -> Exited(command, 0)
      [] kind = "exit0_quantum" ->
            [Exited(command, 0) EXCEPT !.stdout = <<"QUANTUM">> \o @]
      [] kind = "exit1" -> Exited(command, 1)
      [] kind = "launch_failure" -> LaunchFailure(command)

\* run_command treating every launched process as a success
RunCommandLaunchedIsSuccess(env, command, capture_output) ==
    IF env[command].raised
    THEN [success |-> FALSE, stdout |-> EmptyStr, stderr |-> env[command].exception]
    ELSE [success |-> TRUE, stdout |-> env[command].stdout, stderr |-> env[command].stderr]

\* run_command, where env tells what each command line does when it is run
RunCommand(env, command, capture_output) ==
    IF env[command].raised
    THEN [success |-> FALSE, stdout |-> EmptyStr, stderr |-> env[command].exception]
    ELSE IF capture_output
    THEN [success |-> env[command].returncode = 0,
          stdout |-> env[command].stdout, stderr |-> env[command].stderr]
    ELSE [success |-> env[command].returncode = 0, stdout |-> EmptyStr, stderr |-> EmptyStr]

\* what a method hands back: a (success, stdout, stderr) triple, or an exception
Returned(r) ==
    [raised |-> FALSE, success |-> r.success, stdout |-> r.stdout, stderr |-> r.stderr]

Raised == [raised |-> TRUE, success |-> FALSE, stdout |-> EmptyStr, stderr |-> EmptyStr]

NoResult == [raised |-> FALSE, success |-> FALSE, stdout |-> EmptyStr, stderr |-> EmptyStr]

\* a loop over command lines that goes on after a success
RECURSIVE TryEachWithoutBreak(_, _, _, _)
TryEachWithoutBreak(env, cmds, capture_output, acc) ==
    IF cmds = <<>> THEN acc
    ELSE TryEachWithoutBreak(env, Tail(cmds), capture_output,
            [commands |-> Append(acc.commands, Head(cmds)),
             last |-> RunCommand(env, Head(cmds), capture_output)])

\* a loop over command lines that gives up after the first one
TryFirstOnly(env, cmds, capture_output, acc) ==
    IF cmds = <<>> THEN acc
    ELSE [commands |-> Append(acc.commands, Head(cmds)),
          last |-> RunCommand(env, Head(cmds), capture_output)]

\* the loops of lines 214-220 and 241-247: run the command lines in order until
\* one succeeds; acc holds the commands issued and the latest triple
RECURSIVE TryEach(_, _, _, _)
TryEach(env, cmds, capture_output, acc) ==
    IF cmds = <<>> THEN acc
    ELSE LET r == RunCommand(env, Head(cmds), capture_output)
             acc1 == [commands |-> Append(acc.commands, Head(cmds)), last |-> r]
         IN  IF r.success THEN acc1
             ELSE TryEach(env, Tail(cmds), capture_output, acc1)

NotTried == [commands |-> <<>>, last |-> [success |-> FALSE, stdout |-> EmptyStr, stderr |-> EmptyStr]]

MediaDir == <<"/", "m", "e", "d", "i", "a", "/">>

\* os.getenv('USER', 'user')
Username == <<"u", "s", "e", "r">>

MkdirCommand(mount_point) == <<"sudo mkdir -p '">> \o mount_point \o <<"'">>

ChownCommand(mount_point) ==
    <<"sudo chown ">> \o Username \o <<":">> \o Username \o <<" '">> \o mount_point \o <<"'">>

RewindCommand(device) == <<"mt -f ">> \o device \o <<" rewind">>

\* lines 203-208
MountCommands(device, mount_point, options) ==
    << <<"sudo ltfs -o devname=">> \o device \o <<" ">> \o options \o <<" ">> \o mount_point,
       <<"sudo ltfs -o devname=">> \o device \o <<",force_mount_no_eod ">> \o options
           \o <<" ">> \o mount_point,
       <<"sudo ltfs -o devname=">> \o device \o <<",sync_type=unmount ">> \o options
           \o <<" ">> \o mount_point,
       <<"sudo ltfs -o devname=">> \o device \o <<",force_mount_no_eod,sync_type=unmount ">>
           \o options \o <<" ">> \o mount_point >>

\* lines 232-236
UnmountCommands(mount_point) ==
    << <<"sudo umount '">> \o mount_point \o <<"'">>,
       <<"fusermount -u '">> \o mount_point \o <<"'">>,
       <<"sudo fusermount -u '">> \o mount_point \o <<"'">> >>

SgInqCommand(device) == <<"sg_inq ">> \o device

\* lines 157-168: the mkltfs command line
MkltfsCommand(device, label, force, quantum) ==
    <<"mkltfs -d ">> \o device
    \o (IF label # EmptyStr THEN <<" -n '">> \o label \o <<"'">> ELSE <<>>)
    \o (IF force THEN <<" -f">> ELSE <<>>)
    \o (IF quantum THEN <<" -b 65536">> ELSE <<>>)

ListCommand == <<"mount | grep ltfs">>

\* 'QUANTUM' in stdout
MentionsQuantum(text) == \E i \in DOMAIN text : text[i] = "QUANTUM"

NoTapes == [x \in {} |-> x]

\* mount_tape going on to the rewind and the variants whatever became of the mount point
MountTapeWithoutMountPoint(tapes, c) ==
    LET tried == TryEach(c.env, MountCommands(c.device, c.mount_point, c.options), FALSE,
                         NotTried)
    IN  [commands |-> <<RewindCommand(c.device)>> \o tried.commands,
         result |-> Returned(tried.last),
         mounted_tapes |->
             IF tried.last.success
             THEN [x \in DOMAIN tapes \cup {c.mount_point} |->
                     IF x = c.mount_point
                     THEN [device |-> c.device, mount_point |-> c.mount_point,
                           options |-> c.options]
                     ELSE tapes[x]]
             ELSE tapes]

\* mount_tape: the commands issued, what is handed back, and mounted_tapes afterwards
MountTape(tapes, c) ==
    LET media == StartsWith(c.mount_point, MediaDir)
        mkdir == RunCommand(c.env, MkdirCommand(c.mount_point), TRUE)
        prepared == IF media THEN <<MkdirCommand(c.mount_point), ChownCommand(c.mount_point)>>
                    ELSE <<>>
        tried == TryEach(c.env, MountCommands(c.device, c.mount_point, c.options), FALSE,
                         NotTried)
    IN  IF media /\ ~mkdir.success
        THEN [commands |-> <<MkdirCommand(c.mount_point)>>,
              result |-> Returned([success |-> FALSE, stdout |-> EmptyStr,
                                   stderr |-> <<"Failed to create mount point: ">>
                                              \o mkdir.stderr]),
              mounted_tapes |-> tapes]
        ELSE IF ~media /\ c.makedirs = "permission_error"
        THEN [commands |-> <<>>,
              result |-> Returned([success |-> FALSE, stdout |-> EmptyStr,
                                   stderr |-> <<"Permission denied creating mount point: ",
                                                "exception of: makedirs">>]),
              mounted_tapes |-> tapes]
        ELSE IF ~media /\ c.makedirs = "os_error"
        THEN [commands |-> <<>>, result |-> Raised, mounted_tapes |-> tapes]
        ELSE [commands |-> prepared \o <<RewindCommand(c.device)>> \o tried.commands,
              result |-> Returned(tried.last),
              mounted_tapes |->
                  IF tried.last.success
                  THEN [x \in DOMAIN tapes \cup {c.mount_point} |->
                          IF x = c.mount_point
                          THEN [device |-> c.device, mount_point |-> c.mount_point,
                                options |-> c.options]
                          ELSE tapes[x]]
                  ELSE tapes]

\* unmount_tape dropping the entry whether or not a tool succeeded
UnmountTapeForgetting(tapes, c) ==
    LET tried == TryEach(c.env, UnmountCommands(c.mount_point), TRUE, NotTried)
    IN  [commands |-> tried.commands,
         result |-> Returned(tried.last),
         mounted_tapes |-> [x \in DOMAIN tapes \ {c.mount_point} |-> tapes[x]]]

\* unmount_tape running every tool whatever the earlier ones did
UnmountTapeEveryTool(tapes, c) ==
    LET tried == TryEachWithoutBreak(c.env, UnmountCommands(c.mount_point), TRUE, NotTried)
    IN  [commands |-> tried.commands,
         result |-> Returned(tried.last),
         mounted_tapes |->
             IF tried.last.success /\ c.mount_point \in DOMAIN tapes
             THEN [x \in DOMAIN tapes \ {c.mount_point} |-> tapes[x]]
             ELSE tapes]

\* unmount_tape
UnmountTape(tapes, c) ==
    LET tried == TryEach(c.env, UnmountCommands(c.mount_point), TRUE, NotTried)
    IN  [commands |-> tried.commands,
         result |-> Returned(tried.last),
         mounted_tapes |->
             IF tried.last.success /\ c.mount_point \in DOMAIN tapes
             THEN [x \in DOMAIN tapes \ {c.mount_point} |-> tapes[x]]
             ELSE tapes]

\* format_tape running mkltfs again when it failed
FormatTapeRetrying(tapes, c) ==
    LET inq == RunCommand(c.env, SgInqCommand(c.device), TRUE)
        cmd == MkltfsCommand(c.device, c.label, c.force,
                             inq.success /\ MentionsQuantum(inq.stdout))
        first == RunCommand(c.env, cmd, TRUE)
    IN  [commands |-> IF first.success THEN <<SgInqCommand(c.device), cmd>>
                      ELSE <<SgInqCommand(c.device), cmd, cmd>>,
         result |-> Returned(first),
         mounted_tapes |-> tapes]

\* format_tape
FormatTape(tapes, c) ==
    LET inq == RunCommand(c.env, SgInqCommand(c.device), TRUE)
        cmd == MkltfsCommand(c.device, c.label, c.force,
                             inq.success /\ MentionsQuantum(inq.stdout))
    IN  [commands |-> <<SgInqCommand(c.device), cmd>>,
         result |-> Returned(RunCommand(c.env, cmd, TRUE)),
         mounted_tapes |-> tapes]

\* str.split(sep): the pieces between the separators, empty ones included
RECURSIVE SplitAt(_, _, _)
SplitAt(text, sep, piece) ==
    IF text = <<>> THEN <<piece>>
    ELSE IF Head(text) = sep THEN <<piece>> \o SplitAt(Tail(text), sep, <<>>)
    ELSE SplitAt(Tail(text), sep, Append(piece, Head(text)))

IsNonEmpty(piece) == piece # <<>>

\* str.split(): the words between runs of blanks
SplitBlanks(line) == SelectSeq(SplitAt(line, " ", <<>>), IsNonEmpty)

\* the pieces of a mount table that hold the letters ltfs
LtfsPieces == {"ltfs", "ltfs:"}

\* line 1819: line.strip() and 'ltfs' in line
IsLtfsLine(line) ==
    /\ \E i \in DOMAIN line : line[i] # " "
    /\ \E i \in DOMAIN line : line[i] \in LtfsPieces

\* list_mounted_tapes answering from the in-memory map when that holds a mount
ListMountedTapesFromMemory(tapes, env) ==
    IF DOMAIN tapes # {}
    THEN LET mp == CHOOSE x \in DOMAIN tapes : TRUE
         IN  <<"ltfs:">> \o tapes[mp].device \o <<" ", "on", " ">> \o mp \o <<"\n">>
    ELSE IF RunCommand(env, ListCommand, TRUE).success
    THEN RunCommand(env, ListCommand, TRUE).stdout
    ELSE EmptyStr

\* list_mounted_tapes of a manager whose mounted_tapes is tapes
ListMountedTapes(tapes, env) ==
    IF RunCommand(env, ListCommand, TRUE).success
    THEN RunCommand(env, ListCommand, TRUE).stdout
    ELSE EmptyStr

\* lines 1818-1825: the listbox items made of the text list_mounted_tapes returned
RECURSIVE ListboxItems(_)
ListboxItems(lines) ==
    IF lines = <<>> THEN <<>>
    ELSE LET line == Head(lines)
             parts == SplitBlanks(line)
         IN  (IF IsLtfsLine(line) /\ Len(parts) >= 3
              THEN <<parts[3] \o <<" (">> \o parts[1] \o <<")">> >>
              ELSE <<>>)
             \o ListboxItems(Tail(lines))

\* refresh_mounted_list in a program whose manager holds mounted_tapes = tapes
MountedList(tapes, env) ==
    [info |-> ListMountedTapes(tapes, env),
     listbox |-> ListboxItems(SplitAt(ListMountedTapes(tapes, env), "\n", <<>>))]

NoListing == [info |-> EmptyStr, listbox |-> <<>>]

\* texts 'mount | grep ltfs' can print
TableLine(device, mount_point) ==
    <<"ltfs:">> \o device \o <<" ", "on", " ">> \o mount_point
    \o <<" ", "type", " ", "fuse", "\n">>

MediaMountPoint == MediaDir \o <<"t">>

OtherMountPoint == <<"/", "m", "n", "t", "/", "t">>

MountTables ==
    {EmptyStr,
     TableLine(primary_device, MediaMountPoint),
     TableLine(primary_device, MediaMountPoint) \o TableLine(DevPath(nst0), OtherMountPoint),
     <<"ltfs", " ", "on", "\n">> \o TableLine(primary_device, MediaMountPoint)}

\* what a run of 'mount | grep ltfs' does: lines found, nothing found, no launch
ListOutcomes ==
    {[Exited(ListCommand, 0) EXCEPT !.stdout = t] : t \in MountTables}
    \cup {[Exited(ListCommand, 1) EXCEPT !.stdout = EmptyStr], LaunchFailure(ListCommand)}

\* the operations a worker or a script starts, with what their commands will do
NoCall ==
    [op |-> "none", state |-> "done", after |-> "none", device |-> EmptyStr,
     mount_point |-> EmptyStr, options |-> EmptyStr, label |-> EmptyStr, force |-> FALSE,
     capture_output |-> TRUE, command |-> EmptyStr, makedirs |-> "ok", env |-> NoTapes]

Envs(cmds, kinds) == {[c \in cmds |-> Outcome(c, k[c])] : k \in [cmds -> kinds]}

MountCalls ==
    {[NoCall EXCEPT !.op = "mount", !.state = "pending", !.device = primary_device,
                    !.mount_point = MediaMountPoint, !.env = e] :
        e \in Envs({MkdirCommand(MediaMountPoint), ChownCommand(MediaMountPoint),
                    RewindCommand(primary_device)}
                   \cup Range(MountCommands(primary_device, MediaMountPoint, EmptyStr)),
                   OutcomeKinds)}
    \cup
    {[NoCall EXCEPT !.op = "mount", !.state = "pending", !.device = primary_device,
                    !.mount_point = OtherMountPoint, !.makedirs = mk, !.env = e] :
        mk \in {"ok", "permission_error", "os_error"},
        e \in Envs({RewindCommand(primary_device)}
                   \cup Range(MountCommands(primary_device, OtherMountPoint, EmptyStr)),
                   OutcomeKinds)}

UnmountCalls ==
    UNION {{[NoCall EXCEPT !.op = "unmount", !.state = "pending", !.mount_point = mp,
                           !.env = e] :
               e \in Envs(Range(UnmountCommands(mp)), OutcomeKinds)} :
           mp \in {MediaMountPoint, OtherMountPoint}}

FormatCalls ==
    UNION {{[NoCall EXCEPT !.op = "format", !.state = "pending", !.device = primary_device,
                           !.label = label, !.force = force,
                           !.env = e1 @@ e2] :
               e1 \in Envs({SgInqCommand(primary_device)},
                           OutcomeKinds \cup {"exit0_quantum"}),
               e2 \in Envs({MkltfsCommand(primary_device, label, force, q) : q \in BOOLEAN},
                           OutcomeKinds)} :
           label \in {EmptyStr, <<"L">>}, force \in BOOLEAN}

RunCalls ==
    {[NoCall EXCEPT !.op = "run", !.state = "pending", !.command = c,
                    !.capture_output = capture, !.env = e] :
        c \in {RewindCommand(primary_device)}, capture \in BOOLEAN,
        e \in Envs({RewindCommand(primary_device)}, OutcomeKinds)}

ListCalls == {[NoCall EXCEPT !.op = "list", !.state = "pending"]}

TapeMaps ==
    {NoTapes,
     MediaMountPoint :> [device |-> primary_device, mount_point |-> MediaMountPoint,
                         options |-> EmptyStr]}

----------------------------------------------------------------------------
(* Initial states and actions *)

\* lines 327-347
LightTheme ==
    [name |-> "Light (Mint)", bg |-> "#f7f7f7", fg |-> "#2e2e2e",
     select_bg |-> "#1f9ede", select_fg |-> "#ffffff", entry_bg |-> "#ffffff",
     entry_fg |-> "#2e2e2e", frame_bg |-> "#f7f7f7", button_bg |-> "#e8e8e8",
     button_hover |-> "#d4d4d4", text_bg |-> "#ffffff", text_fg |-> "#2e2e2e",
     notebook_bg |-> "#f7f7f7", tab_bg |-> "#e8e8e8", tab_active |-> "#ffffff",
     border_color |-> "#d0d0d0", warning_fg |-> "#d73502", success_fg |-> "#5aa02c",
     info_fg |-> "#666666"]

\* lines 348-369
DarkTheme ==
    [name |-> "Dark (Mint)", bg |-> "#383838", fg |-> "#DADADA",
     select_bg |-> "#1f9ede", select_fg |-> "#ffffff", entry_bg |-> "#404040",
     entry_fg |-> "#DADADA", frame_bg |-> "#383838", button_bg |-> "#4a4a4a",
     button_hover |-> "#525252", text_bg |-> "#404040", text_fg |-> "#DADADA",
     notebook_bg |-> "#383838", tab_bg |-> "#4a4a4a", tab_active |-> "#5a5a5a",
     border_color |-> "#2a2a2a", warning_fg |-> "#ff6b6b", success_fg |-> "#51cf66",
     info_fg |-> "#adb5bd"]

\* lines 370-390
BlueDarkTheme ==
    [name |-> "Blue Dark", bg |-> "#1a1d29", fg |-> "#e8eaed", select_bg |-> "#1e88e5",
     select_fg |-> "#ffffff", entry_bg |-> "#2d3748", entry_fg |-> "#e8eaed",
     frame_bg |-> "#1a1d29", button_bg |-> "#2d3748", button_hover |-> "#3d4758",
     text_bg |-> "#0f172a", text_fg |-> "#e8eaed", notebook_bg |-> "#1a1d29",
     tab_bg |-> "#2d3748", tab_active |-> "#3d4758", border_color |-> "#475569",
     warning_fg |-> "#f87171", success_fg |-> "#34d399", info_fg |-> "#94a3b8"]

\* lines 391-411
HighContrastTheme ==
    [name |-> "High Contrast", bg |-> "#000000", fg |-> "#ffffff",
     select_bg |-> "#ffff00", select_fg |-> "#000000", entry_bg |-> "#111111",
     entry_fg |-> "#ffffff", frame_bg |-> "#000000", button_bg |-> "#333333",
     button_hover |-> "#444444", text_bg |-> "#000000", text_fg |-> "#ffffff",
     notebook_bg |-> "#000000", tab_bg |-> "#333333", tab_active |-> "#444444",
     border_color |-> "#ffffff", warning_fg |-> "#ff0000", success_fg |-> "#00ff00",
     info_fg |-> "#cccccc"]

\* lines 412-415: the system theme before detect_system_colors has filled it
EmptySystemTheme == [name |-> "System Default"]

\* lines 326-416: the keys of the theme table, in the order of the dict
ThemeOrder == <<"light", "dark", "blue_dark", "high_contrast", "system">>

\* lines 326-416: self.themes as the constructor writes it
BuiltInThemes ==
    [k \in Range(ThemeOrder) |->
        CASE k = "light" -> LightTheme
          [] k = "dark" -> DarkTheme
          [] k = "blue_dark" -> BlueDarkTheme
          [] k = "high_contrast" -> HighContrastTheme
          [] k = "system" -> EmptySystemTheme]

\* no widget, or no attribute
Missing == [exists |-> FALSE, entries |-> <<>>]

\* no theme has been applied
NotApplied == [theme |-> "", raised |-> FALSE, key |-> ""]

\* no log yet
NoLog ==
    /\ log_text = Missing
    /\ pending_log_messages = Missing
    /\ log_history = [entries |-> <<>>, inserted |-> 0]

\* auto-refresh is off
NoTimers ==
    /\ auto_refresh_var = FALSE
    /\ auto_refresh_pending = 0

\* the window before anything of it is made
NoWindow ==
    /\ NoLog
    /\ NoTimers
    /\ themes = BuiltInThemes
    /\ current_theme_name = ""
    /\ dark_mode = FALSE
    /\ theme_combo = [values |-> <<>>, text |-> ""]
    /\ root_bg = ""
    /\ apply_result = NotApplied

\* neither thread of the mount tab has been started
NoMountThreads == [t \in {"mount", "unmount"} |-> [pc |-> "none", call |-> NoCall]]

\* no command has succeeded on any mount point
NoSuccess == [p \in {MediaMountPoint, OtherMountPoint} |-> "none"]

\* the threads the format and diagnostics tabs start, by the name of their handler
WorkerNames == {"format", "hardware", "status", "tape", "position", "load", "seek", "rw"}

\* a thread that is not running
NoWorker == [device |-> EmptyStr, todo |-> <<>>]

\* lines 1199-1220: the sub-tests of the full diagnostic, in the order they are started
SubTests == <<"hardware", "status", "tape", "position", "load", "seek">>

\* the full diagnostic thread is not running
NotStarted == [running |-> FALSE, started |-> <<>>]

\* nothing has happened in the session yet
NoSession ==
    /\ history = <<>>
    /\ format_device_var = EmptyStr
    /\ diagnostics_device_var = EmptyStr
    /\ workers = [w \in WorkerNames |-> NoWorker]
    /\ full_diagnostic = NotStarted
    /\ mount_threads = NoMountThreads
    /\ last_success = NoSuccess
    /\ NoWindow

\* no tape operation has been started
NoTapeOperation ==
    /\ call = NoCall
    /\ commands = <<>>
    /\ result = NoResult
    /\ mounted_tapes = NoTapes
    /\ mounted_list = NoListing
    /\ shadow = [mounted_tapes |-> NoTapes, info |-> EmptyStr, listbox |-> <<>>]

NoOperation == NoSession /\ NoTapeOperation

\* LTFSManager.__init__ up to its call of refresh_drives, the mount tab's variables
\* as setup_mount_tab creates them
InitOn(names, entries) ==
    /\ \E P \in SUBSET names, mt \in BOOLEAN :
         /\ Cardinality(P) <= MaxEntries
         /\ \E F \in SUBSET P :
              /\ Cardinality(F) <= MaxFaults
              /\ \E f \in [F -> entries \ {Absent, Healthy}] :
                   LET d == [n \in DevNames |->
                               IF n \in F THEN f[n]
                               ELSE IF n \in P THEN Healthy ELSE Absent]
                   IN  /\ WithinBounds(d, mt)
                       /\ dev = d
                       /\ mt_installed = mt
    /\ tape_drives = <<>>
    /\ physical_drives = NoDrives
    /\ permission_issues = <<>>
    /\ single_drive_mode = FALSE
    /\ scan_result = "none"
    /\ phase = "new"
    /\ mount_device_var = EmptyStr
    /\ mount_device_combo = <<>>
    /\ operator_chose = FALSE
    /\ mount_request = EmptyStr
    /\ dialog = NoDialog
    /\ twin = NoTwin
    /\ NoOperation

Init == InitOn(GuiDevNames, GuiEntries)

InitScan == InitOn(DevNames, PresentEntries)

\* LTFSManager(): the scan that ends __init__; an exception ends the program
Construct ==
    /\ phase = "new"
    /\ RefreshDrives(dev, mt_installed)
    /\ phase' = IF scan_result' = "raised" THEN "dead" ELSE "gui_init"
    /\ UNCHANGED <<guiVars, twin, opVars>>

\* LTFSGui.refresh_drives, at the end of LTFSGui.__init__ and from the Refresh Drives
\* button. An exception of the scan leaves the handler before any widget is touched;
\* in __init__ it ends the program, in a button callback the main loop goes on.
\* Of the widgets the handler fills, the mount tab's are state here; the drive
\* listbox, the other tabs' comboboxes, the mount point and the log are not.
GuiRefreshDrives ==
    /\ phase \in {"gui_init", "running"}
    /\ \E n \in GuiDevNames, e \in GuiEntries, mt \in BOOLEAN :
         \* since the previous scan one /dev entry, or the mt binary, may have changed
         /\ mt = mt_installed \/ e = dev[n]
         /\ WithinBounds([dev EXCEPT ![n] = e], mt)
         /\ RefreshDrives([dev EXCEPT ![n] = e], mt)
         /\ IF scan_result' = "raised"
            THEN /\ phase' = IF phase = "gui_init" THEN "dead" ELSE "running"
                 /\ UNCHANGED <<mount_device_var, mount_device_combo, operator_chose>>
            ELSE /\ phase' = "running"
                 /\ mount_device_combo' = tape_drives'
                 /\ mount_device_var' = DefaultMountDevice(tape_drives', mount_device_var)
                 /\ operator_chose' = IF tape_drives' # <<>> THEN FALSE ELSE operator_chose
    /\ IF scan_result' = "returned" /\ tape_drives' # <<>>
       THEN /\ format_device_var' = tape_drives'[1]
            /\ diagnostics_device_var' = tape_drives'[1]
       ELSE UNCHANGED tabVars
    /\ mount_request' = EmptyStr
    /\ dialog' = NoDialog
    /\ UNCHANGED <<twin, call, commands, result, mounted_tapes, mounted_list, shadow,
                   sessionVars>>

\* the operator picks a listed device in the mount tab's combobox, or clears the field
SelectMountDevice ==
    /\ phase = "running"
    /\ \E v \in Range(mount_device_combo) \cup {EmptyStr} :
         /\ mount_device_var' = v
         /\ operator_chose' = (v # EmptyStr)
    /\ mount_request' = EmptyStr
    /\ dialog' = NoDialog
    /\ UNCHANGED <<dev, mt_installed, managerVars, scan_result, phase, mount_device_combo,
                   twin, opVars>>

\* LTFSGui.mount_tape up to the start of the mount worker: without a device an
\* error box and no worker
GuiMountTape ==
    /\ phase = "running"
    /\ LET device == GetSelectedDevice(mount_device_var, tape_drives)
       IN  /\ mount_device_var' = device
           /\ mount_request' = device
           /\ dialog' = IF device = EmptyStr THEN ErrorDialog(NoDeviceMessage) ELSE NoDialog
    /\ UNCHANGED <<dev, mt_installed, managerVars, scan_result, phase, mount_device_combo,
                   operator_chose, twin, opVars>>

Next ==
    \/ Construct
    \/ GuiRefreshDrives
    \/ SelectMountDevice
    \/ GuiMountTape

Spec == Init /\ [][Next]_vars

NextScan == Construct

SpecScan == InitScan /\ [][NextScan]_vars

----------------------------------------------------------------------------
(* Two managers scanning the same /dev: the GUI's way of calling refresh_drives *)
(* on a manager with a history, and a second manager with another history      *)

\* within one process list(set(xs)) iterates over equal strings in one hash order
SameProcessOrder(a, b) ==
    \A i, j \in DOMAIN a, k, l \in DOMAIN b :
        (a[i] = b[k] /\ a[j] = b[l] /\ i < j) => k < l

\* the /dev entries that come and go while two managers are compared
TwinDevNames == {st0, st1, st1a}

\* both managers constructed while /dev held no tape device
InitTwin ==
    /\ dev = [n \in DevNames |-> Absent]
    /\ mt_installed = TRUE
    /\ tape_drives = <<>>
    /\ physical_drives = NoDrives
    /\ permission_issues = <<>>
    /\ single_drive_mode = FALSE
    /\ scan_result = "returned"
    /\ phase = "gui_init"
    /\ mount_device_var = EmptyStr
    /\ mount_device_combo = <<>>
    /\ operator_chose = FALSE
    /\ mount_request = EmptyStr
    /\ dialog = NoDialog
    /\ twin = [NoTwin EXCEPT !.fields.scan_result = "returned"]
    /\ NoOperation

\* refresh_drives of the first manager alone, after one /dev entry or mt changed
ScanFirst ==
    /\ \E n \in TwinDevNames, e \in GuiEntries, mt \in BOOLEAN :
         /\ mt = mt_installed \/ e = dev[n]
         /\ WithinBounds([dev EXCEPT ![n] = e], mt)
         /\ RefreshDrives([dev EXCEPT ![n] = e], mt)
    /\ twin' = [twin EXCEPT !.same_inputs = FALSE]
    /\ UNCHANGED <<phase, guiVars, opVars>>

\* refresh_drives of both managers against /dev and mt as they are now
ScanBoth ==
    /\ RefreshDrives(dev, mt_installed)
    /\ \E r \in ScanFields(twin.fields, dev, mt_installed) :
         /\ SameProcessOrder(permission_issues', r.permission_issues)
         /\ twin' = [fields |-> r, same_inputs |-> TRUE,
                     prior_differed |-> twin.fields # Self]
    /\ UNCHANGED <<phase, guiVars, opVars>>

NextTwin == ScanFirst \/ ScanBoth

SpecTwin == InitTwin /\ [][NextTwin]_vars

----------------------------------------------------------------------------
(* Tape operations: one operation at a time, started on a manager whose scan *)
(* found nothing; what each command does is settled when the call starts.    *)

discoveryVars ==
    <<dev, mt_installed, managerVars, scan_result, phase, mount_device_var,
      mount_device_combo, operator_chose, mount_request, twin, sessionVars, tabVars>>

InitOps ==
    /\ dev = [n \in DevNames |-> Absent]
    /\ mt_installed = TRUE
    /\ tape_drives = <<>>
    /\ physical_drives = NoDrives
    /\ permission_issues = <<>>
    /\ single_drive_mode = FALSE
    /\ scan_result = "returned"
    /\ phase = "running"
    /\ mount_device_var = EmptyStr
    /\ mount_device_combo = <<>>
    /\ operator_chose = FALSE
    /\ mount_request = EmptyStr
    /\ dialog = NoDialog
    /\ twin = NoTwin
    /\ NoSession
    /\ call \in MountCalls \cup UnmountCalls \cup FormatCalls \cup RunCalls \cup ListCalls
    /\ commands = <<>>
    /\ result = NoResult
    /\ mounted_tapes \in TapeMaps
    /\ mounted_list = NoListing
    /\ \E t \in TapeMaps : shadow = [mounted_tapes |-> t, info |-> EmptyStr, listbox |-> <<>>]

\* the worker LTFSGui.mount_tape starts: LTFSManager.mount_tape, then a message box
\* and, after a success, refresh_mounted_list scheduled on the main loop
MountWorker ==
    /\ call.op = "mount" /\ call.state = "pending"
    /\ LET m == MountTape(mounted_tapes, call)
           error_msg == IF m.result.stderr # EmptyStr THEN m.result.stderr
                        ELSE <<"Unknown error occurred">>
       IN  /\ commands' = commands \o m.commands
           /\ result' = m.result
           /\ mounted_tapes' = m.mounted_tapes
           /\ dialog' = IF m.result.raised THEN NoDialog
                        ELSE IF m.result.success
                        THEN InfoDialog(<<"Tape mounted successfully at ">> \o call.mount_point)
                        ELSE ErrorDialog(<<"Failed to mount tape:\n">> \o error_msg)
           /\ call' = [call EXCEPT !.state = "done",
                                   !.after = IF m.result.success THEN "scheduled" ELSE "none"]
    /\ UNCHANGED <<discoveryVars, mounted_list, shadow>>

\* a call of LTFSManager.unmount_tape
CallUnmountTape ==
    /\ call.op = "unmount" /\ call.state = "pending"
    /\ LET u == UnmountTape(mounted_tapes, call)
       IN  /\ commands' = commands \o u.commands
           /\ result' = u.result
           /\ mounted_tapes' = u.mounted_tapes
    /\ call' = [call EXCEPT !.state = "done"]
    /\ UNCHANGED <<discoveryVars, dialog, mounted_list, shadow>>

\* a call of LTFSManager.format_tape
CallFormatTape ==
    /\ call.op = "format" /\ call.state = "pending"
    /\ LET f == FormatTape(mounted_tapes, call)
       IN  /\ commands' = commands \o f.commands
           /\ result' = f.result
           /\ mounted_tapes' = f.mounted_tapes
    /\ call' = [call EXCEPT !.state = "done"]
    /\ UNCHANGED <<discoveryVars, dialog, mounted_list, shadow>>

\* a call of LTFSManager.run_command
CallRunCommand ==
    /\ call.op = "run" /\ call.state = "pending"
    /\ commands' = Append(commands, call.command)
    /\ result' = Returned(RunCommand(call.env, call.command, call.capture_output))
    /\ call' = [call EXCEPT !.state = "done"]
    /\ UNCHANGED <<discoveryVars, dialog, mounted_tapes, mounted_list, shadow>>

\* LTFSGui.refresh_mounted_list, called by a handler or run by the main loop after a
\* mount; the same listing is made in the shadow program state
RefreshMountedList ==
    /\ \/ call.op = "list" /\ call.state = "pending"
       \/ call.after = "scheduled"
    /\ \E o \in ListOutcomes :
         /\ mounted_list' = MountedList(mounted_tapes, ListCommand :> o)
         /\ shadow' = [mounted_tapes |-> shadow.mounted_tapes,
                       info |-> MountedList(shadow.mounted_tapes, ListCommand :> o).info,
                       listbox |-> MountedList(shadow.mounted_tapes, ListCommand :> o).listbox]
    /\ commands' = Append(commands, ListCommand)
    /\ call' = [call EXCEPT !.state = "done",
                            !.after = IF call.after = "scheduled" THEN "ran" ELSE "listed"]
    /\ UNCHANGED <<discoveryVars, dialog, result, mounted_tapes>>

NextOps ==
    \/ MountWorker
    \/ CallUnmountTape
    \/ CallFormatTape
    \/ CallRunCommand
    \/ RefreshMountedList

SpecOps == InitOps /\ [][NextOps]_vars

----------------------------------------------------------------------------
(* The worker threads of the format and diagnostics tabs.  A worker runs its *)
(* command lines one after the other; a step of the model is the exit of the *)
(* command line a worker is running, upon which the worker starts its next   *)
(* one or ends.  Nothing in the program makes a thread wait for another.     *)

\* the question answered with yes or with no
ConfirmDialog(text, answer) == [kind |-> IF answer THEN "yes" ELSE "no", text |-> text]

\* line 1876
NoFormatDeviceMessage == <<"Please select a device to format.">>

\* lines 931, 956, 988, 1011, 1043, 1112, 1149, 1187
NoDriveMessage == <<"Please select a tape drive first.">>

\* line 1883: the warning sign U+26A0 U+FE0F, which a TLA+ string cannot hold
WarningSign == "(warning sign)"

\* lines 1880-1883
FormatQuestion(device, label) ==
    <<"Are you sure you want to format ">> \o device \o <<"?">>
    \o (IF label # EmptyStr THEN <<"\nTape will be labeled: ">> \o label ELSE <<>>)
    \o <<"\n\n", WarningSign, "  This will PERMANENTLY erase all data on the tape!">>

\* lines 1046-1048
RwQuestion ==
    <<"This will perform a read/write test that may take several minutes.\n\nContinue?">>

\* lines 1190-1193
FullDiagnosticQuestion ==
    <<"This will run a comprehensive diagnostic suite that may take 10-30 minutes.\n\n",
      "The test will include hardware checks, positioning tests, and read/write verification.\n\n",
      "Continue?">>

\* lines 1223-1224
ContinueWithRwQuestion ==
    <<"Proceed with read/write test? This will write test data to the tape.">>

MtCommand(device, operation) == <<"mt -f ">> \o device \o <<" ">> \o operation

\* the tape labels the operator types into the format tab
FormatLabels == {EmptyStr, <<"T">>}

\* the command lines of each worker, in the order it runs them
WorkerCommands(name, device, label, force) ==
    CASE name = "format" ->
           <<SgInqCommand(device), MkltfsCommand(device, label, force, FALSE)>>
      [] name = "hardware" ->
           <<SgInqCommand(device), <<"sg_vpd -p sn ">> \o device, <<"lsscsi | grep tape">>>>
      [] name = "status" -> <<MtCommand(device, <<"status">>)>>
      [] name = "tape" ->
           <<MtCommand(device, <<"status">>), <<"tapeinfo -f ">> \o device,
             <<"sg_readcap ">> \o device>>
      [] name = "position" -> <<MtCommand(device, <<"tell">>)>>
      [] name = "load" ->
           <<MtCommand(device, <<"offline">>), <<"sleep 5">>,
             MtCommand(device, <<"load">>), MtCommand(device, <<"status">>)>>
      [] name = "seek" ->
           <<RewindCommand(device), MtCommand(device, <<"fsf 1000">>),
             MtCommand(device, <<"tell">>), MtCommand(device, <<"bsf 500">>),
             MtCommand(device, <<"tell">>), RewindCommand(device)>>
      [] name = "rw" ->
           <<<<"dd if=/dev/urandom of=/tmp/tape_test_data bs=1M count=10 2>&1">>,
             <<"dd if=/tmp/tape_test_data of=">> \o device \o <<" bs=1M 2>&1">>,
             RewindCommand(device),
             <<"dd if=">> \o device \o <<" of=/tmp/tape_read_test bs=1M count=10 2>&1">>,
             <<"cmp /tmp/tape_test_data /tmp/tape_read_test">>,
             <<"rm -f /tmp/tape_test_data /tmp/tape_read_test">>>>

\* the worker is inside run_command
Running(name) == workers[name].todo # <<>>

\* the command line the worker is running
Current(name) == workers[name].todo[1]

\* what the worker has still to run once its running command line has ended as
\* run_command reports in r
Remaining(name, todo, r) ==
    CASE name = "format" /\ Len(todo) = 2 ->
           \* lines 164-168
           IF r.success /\ MentionsQuantum(r.stdout)
           THEN <<todo[2] \o <<" -b 65536">>>>
           ELSE Tail(todo)
      [] name = "load" ->
           \* line 1138: break
           IF r.success THEN Tail(todo) ELSE <<>>
      [] name = "rw" /\ Len(todo) = 6 ->
           \* lines 1063, 1098-1099: no test data, no test and no cleanup
           IF r.success THEN Tail(todo) ELSE <<>>
      [] name = "rw" /\ Len(todo) \in {5, 3} ->
           \* lines 1070, 1080, 1092-1096: a failed write or read leaves the cleanup
           IF r.success THEN Tail(todo) ELSE <<todo[Len(todo)]>>
      [] OTHER -> Tail(todo)

\* what the exits of the commands of a worker look like
WorkerOutcomeKinds(name) ==
    IF name = "format" THEN {"exit0", "exit0_quantum", "exit1"} ELSE {"exit0", "exit1"}

\* a thread is started for the handler called name
StartWorker(name, device, label, force) ==
    workers' = [workers EXCEPT ![name] =
                   [device |-> device, todo |-> WorkerCommands(name, device, label, force)]]

\* lines 929-950 and alike: a handler of the diagnostics tab that asks nothing
StartDiagnostic(name) ==
    IF diagnostics_device_var = EmptyStr
    THEN /\ dialog' = ErrorDialog(NoDriveMessage)
         /\ workers' = workers
    ELSE /\ StartWorker(name, diagnostics_device_var, EmptyStr, FALSE)
         /\ dialog' = dialog

\* lines 1039-1106: run_rw_test asks before it starts its thread
StartRwTest ==
    IF diagnostics_device_var = EmptyStr
    THEN /\ dialog' = ErrorDialog(NoDriveMessage)
         /\ workers' = workers
    ELSE \E answer \in BOOLEAN :
           /\ dialog' = ConfirmDialog(RwQuestion, answer)
           /\ IF answer
              THEN StartWorker("rw", diagnostics_device_var, EmptyStr, FALSE)
              ELSE workers' = workers

\* a manager that scanned a /dev where st0 and st1 are healthy drives, and a GUI
\* that listed them
TabDev == [n \in DevNames |-> IF n \in {st0, st1} THEN Healthy ELSE Absent]

InitTabs ==
    /\ dev = TabDev
    /\ mt_installed = TRUE
    /\ \E r \in ScanFields(FreshManager, TabDev, TRUE) :
         /\ tape_drives = r.tape_drives
         /\ physical_drives = r.physical_drives
         /\ permission_issues = r.permission_issues
         /\ single_drive_mode = r.single_drive_mode
         /\ scan_result = r.scan_result
    /\ phase = "running"
    /\ mount_device_var = DefaultMountDevice(tape_drives, EmptyStr)
    /\ mount_device_combo = tape_drives
    /\ operator_chose = FALSE
    /\ mount_request = EmptyStr
    /\ dialog = NoDialog
    /\ twin = NoTwin
    /\ NoTapeOperation
    /\ history = <<>>
    /\ format_device_var \in Range(tape_drives) \cup {EmptyStr}
    /\ diagnostics_device_var \in Range(tape_drives) \cup {EmptyStr}
    /\ workers = [w \in WorkerNames |-> NoWorker]
    /\ full_diagnostic = NotStarted
    /\ mount_threads = NoMountThreads
    /\ last_success = NoSuccess
    /\ NoWindow

workersUnchanged ==
    <<dev, mt_installed, managerVars, scan_result, phase, mount_device_var,
      mount_device_combo, operator_chose, mount_request, twin,
      call, commands, result, mounted_tapes, mounted_list, shadow, history, raceVars,
      windowVars>>

\* the operator picks a listed device in the format tab's combobox, or clears the field
SelectFormatDevice ==
    /\ \E v \in Range(tape_drives) \cup {EmptyStr} : format_device_var' = v
    /\ UNCHANGED <<workersUnchanged, dialog, diagnostics_device_var, threadVars>>

\* the same in the diagnostics tab
SelectDiagnosticsDevice ==
    /\ \E v \in Range(tape_drives) \cup {EmptyStr} : diagnostics_device_var' = v
    /\ UNCHANGED <<workersUnchanged, dialog, format_device_var, threadVars>>

\* LTFSGui.format_tape starting its thread whatever the answer
GuiFormatTapeUnasked ==
    /\ ~Running("format")
    /\ \E label \in FormatLabels, force, answer \in BOOLEAN :
         IF format_device_var = EmptyStr
         THEN /\ dialog' = ErrorDialog(NoFormatDeviceMessage)
              /\ workers' = workers
         ELSE /\ dialog' = ConfirmDialog(FormatQuestion(format_device_var, label), answer)
              /\ StartWorker("format", format_device_var, label, force)
    /\ UNCHANGED <<workersUnchanged, tabVars, full_diagnostic>>

\* LTFSGui.format_tape, the handler of the Format Tape button
GuiFormatTape ==
    /\ ~Running("format")
    /\ \E label \in FormatLabels, force, answer \in BOOLEAN :
         IF format_device_var = EmptyStr
         THEN /\ dialog' = ErrorDialog(NoFormatDeviceMessage)
              /\ workers' = workers
         ELSE /\ dialog' = ConfirmDialog(FormatQuestion(format_device_var, label), answer)
              /\ IF answer
                 THEN StartWorker("format", format_device_var, label, force)
                 ELSE workers' = workers
    /\ UNCHANGED <<workersUnchanged, tabVars, full_diagnostic>>

\* no worker runs a command line that names the device
DeviceIsFree(device) ==
    \A w \in WorkerNames : Running(w) => workers[w].device # device

\* check_drive_status refusing a device another worker is using
CheckDriveStatusExclusive ==
    /\ ~Running("status")
    /\ IF DeviceIsFree(diagnostics_device_var)
       THEN StartDiagnostic("status")
       ELSE /\ dialog' = ErrorDialog(<<"Device is busy.">>)
            /\ workers' = workers
    /\ UNCHANGED <<workersUnchanged, tabVars, full_diagnostic>>

\* LTFSGui.check_drive_status, the handler of the Check Drive Status button
CheckDriveStatus ==
    /\ ~Running("status")
    /\ StartDiagnostic("status")
    /\ UNCHANGED <<workersUnchanged, tabVars, full_diagnostic>>

\* the command line that worker name is running ends; the worker goes on
CommandExits(name) ==
    /\ Running(name)
    /\ \E kind \in WorkerOutcomeKinds(name) :
         LET command == Current(name)
             r == RunCommand([c \in {command} |-> Outcome(command, kind)], command, TRUE)
             todo == Remaining(name, workers[name].todo, r)
             error_msg == IF r.stderr # EmptyStr THEN r.stderr
                          ELSE <<"Unknown error occurred">>
         IN  /\ workers' = [workers EXCEPT ![name].todo = todo]
             /\ dialog' = IF name = "format" /\ todo = <<>>
                          THEN IF r.success
                               THEN InfoDialog(<<"Tape formatted successfully with LTFS">>)
                               ELSE ErrorDialog(<<"Failed to format tape:\n">> \o error_msg)
                          ELSE dialog
    /\ UNCHANGED <<workersUnchanged, tabVars, full_diagnostic>>

NextTabs ==
    \/ SelectFormatDevice
    \/ SelectDiagnosticsDevice
    \/ GuiFormatTape
    \/ CheckDriveStatus
    \/ \E name \in {"format", "status"} : CommandExits(name)

SpecTabs == InitTabs /\ [][NextTabs]_vars

\* run_full_diagnostic, the handler of the Full Diagnostic button
RunFullDiagnostic ==
    /\ ~full_diagnostic.running
    /\ \A w \in WorkerNames : ~Running(w)
    /\ IF diagnostics_device_var = EmptyStr
       THEN /\ dialog' = ErrorDialog(NoDriveMessage)
            /\ full_diagnostic' = full_diagnostic
       ELSE \E answer \in BOOLEAN :
              /\ dialog' = ConfirmDialog(FullDiagnosticQuestion, answer)
              /\ full_diagnostic' = [running |-> answer, started |-> <<>>]
    /\ UNCHANGED <<workersUnchanged, tabVars, workers>>

\* lines 1203-1220: full_diagnostic_thread calls the handler of its next sub-test,
\* which starts a thread and returns, and sleeps
StartSubTest ==
    /\ full_diagnostic.running
    /\ Len(full_diagnostic.started) < Len(SubTests)
    /\ LET name == SubTests[Len(full_diagnostic.started) + 1]
       IN  /\ StartDiagnostic(name)
           /\ full_diagnostic' = [full_diagnostic EXCEPT !.started = Append(@, name)]
    /\ UNCHANGED <<workersUnchanged, tabVars>>

\* lines 1222-1230: full_diagnostic_thread offers the read/write test, and ends
OfferRwTest ==
    /\ full_diagnostic.running
    /\ Len(full_diagnostic.started) = Len(SubTests)
    /\ \/ /\ dialog' = ConfirmDialog(ContinueWithRwQuestion, FALSE)
          /\ workers' = workers
       \/ StartRwTest
    /\ full_diagnostic' = NotStarted
    /\ UNCHANGED <<workersUnchanged, tabVars>>

NextFull ==
    \/ RunFullDiagnostic
    \/ StartSubTest
    \/ OfferRwTest
    \/ \E name \in WorkerNames : CommandExits(name)

SpecFull == InitTabs /\ [][NextFull]_vars

----------------------------------------------------------------------------
(* Mount bookkeeping: mount_tape and unmount_tape called one after the other *)
(* on a fresh manager, each call running to its end before the next starts.  *)

\* calls in one session
MaxCalls == 3

\* the command lines in ok exit with code 0, the others with code 1
EnvWhereSucceed(cmds, ok) ==
    [c \in cmds |-> Outcome(c, IF c \in ok THEN "exit0" ELSE "exit1")]

BookDevices == {primary_device, DevPath(st1)}

BookMountPoints == {MediaMountPoint, OtherMountPoint}

\* mounts whose mount point cannot be made, whose variants all fail, whose first
\* variant succeeds, and whose last variant alone succeeds
BookMountCalls ==
    UNION {
      LET variants == MountCommands(d, mp, EmptyStr)
          prepare == {MkdirCommand(mp), ChownCommand(mp), RewindCommand(d)}
          cmds == prepare \cup Range(variants)
          mount == [NoCall EXCEPT !.op = "mount", !.state = "done", !.device = d,
                                  !.mount_point = mp]
      IN  {[mount EXCEPT !.makedirs = "permission_error",
                         !.env = EnvWhereSucceed(cmds, Range(variants))],
           [mount EXCEPT !.env = EnvWhereSucceed(cmds, prepare)],
           [mount EXCEPT !.env = EnvWhereSucceed(cmds, cmds)],
           [mount EXCEPT !.env = EnvWhereSucceed(cmds, prepare \cup {variants[Len(variants)]})]}
      : d \in BookDevices, mp \in BookMountPoints}

\* unmounts whose tools all fail, whose first tool succeeds, whose second tool succeeds
BookUnmountCalls ==
    UNION {
      LET tools == UnmountCommands(mp)
          unmount == [NoCall EXCEPT !.op = "unmount", !.state = "done", !.mount_point = mp]
      IN  {[unmount EXCEPT !.env = EnvWhereSucceed(Range(tools), {})],
           [unmount EXCEPT !.env = EnvWhereSucceed(Range(tools), {tools[1]})],
           [unmount EXCEPT !.env = EnvWhereSucceed(Range(tools), {tools[2]})]}
      : mp \in BookMountPoints}

InitBook ==
    /\ dev = [n \in DevNames |-> Absent]
    /\ mt_installed = TRUE
    /\ tape_drives = <<>>
    /\ physical_drives = NoDrives
    /\ permission_issues = <<>>
    /\ single_drive_mode = FALSE
    /\ scan_result = "returned"
    /\ phase = "running"
    /\ mount_device_var = EmptyStr
    /\ mount_device_combo = <<>>
    /\ operator_chose = FALSE
    /\ mount_request = EmptyStr
    /\ dialog = NoDialog
    /\ twin = NoTwin
    /\ NoOperation

bookUnchanged ==
    <<dev, mt_installed, managerVars, scan_result, phase, mount_device_var,
      mount_device_combo, operator_chose, mount_request, twin, dialog, mounted_list, shadow,
      tabVars, threadVars, raceVars, windowVars>>

\* what history keeps of a call that returned
Logged(c, r) ==
    [op |-> c.op, mount_point |-> c.mount_point, device |-> c.device, success |-> r.success]

\* a call of LTFSManager.mount_tape that returns
BookMount ==
    /\ Len(history) < MaxCalls
    /\ \E c \in BookMountCalls :
         LET m == MountTape(mounted_tapes, c)
         IN  /\ call' = c
             /\ commands' = commands \o m.commands
             /\ result' = m.result
             /\ mounted_tapes' = m.mounted_tapes
             /\ history' = Append(history, Logged(c, m.result))
    /\ UNCHANGED bookUnchanged

\* a call of LTFSManager.unmount_tape
BookUnmount ==
    /\ Len(history) < MaxCalls
    /\ \E c \in BookUnmountCalls :
         LET u == UnmountTape(mounted_tapes, c)
         IN  /\ call' = c
             /\ commands' = commands \o u.commands
             /\ result' = u.result
             /\ mounted_tapes' = u.mounted_tapes
             /\ history' = Append(history, Logged(c, u.result))
    /\ UNCHANGED bookUnchanged

NextBook == BookMount \/ BookUnmount

SpecBook == InitBook /\ [][NextBook]_vars

----------------------------------------------------------------------------
(* The mount and the unmount thread of the mount tab, running side by side.  *)
(* A thread first runs the commands of its call, and then executes the lines *)
(* that follow the loop: the test of success and the update of mounted_tapes.*)
(* The other thread can run between the two.                                 *)

\* lines 1829-1835: the mount point of a listbox item
SelectedMountPoint(item) == SplitAt(item, " (", <<>>)[1]

raceUnchanged ==
    <<dev, mt_installed, managerVars, scan_result, phase, mount_device_combo,
      operator_chose, twin, call, commands, result, shadow, history, tabVars, threadVars,
      windowVars>>

ThreadIsFree(t) == mount_threads[t].pc \in {"none", "done"}

\* the state after the GUI's first refresh: every tab shows the first drive
InitRace ==
    /\ InitTabs
    /\ format_device_var = tape_drives[1]
    /\ diagnostics_device_var = tape_drives[1]

\* the mounts the Mount button starts: the operator has typed MediaMountPoint
RaceMountCalls == {c \in BookMountCalls : c.mount_point = MediaMountPoint}

\* LTFSGui.mount_tape, the handler of the Mount button
GuiMountTapeThread ==
    /\ ThreadIsFree("mount")
    /\ LET device == GetSelectedDevice(mount_device_var, tape_drives)
       IN  /\ mount_device_var' = device
           /\ mount_request' = device
           /\ IF device = EmptyStr
              THEN /\ dialog' = ErrorDialog(NoDeviceMessage)
                   /\ mount_threads' = mount_threads
              ELSE /\ dialog' = dialog
                   /\ \E c \in RaceMountCalls :
                        /\ c.device = device
                        /\ mount_threads' =
                              [mount_threads EXCEPT !["mount"] = [pc |-> "commands", call |-> c]]
    /\ UNCHANGED <<raceUnchanged, mounted_tapes, mounted_list, last_success>>

\* LTFSGui.unmount_tape, the handler of the Unmount button
GuiUnmountTape ==
    /\ ThreadIsFree("unmount")
    /\ IF mounted_list.listbox = <<>>
       THEN /\ dialog' = [kind |-> "warning",
                          text |-> <<"Please select a mounted tape to unmount.">>]
            /\ mount_threads' = mount_threads
       ELSE /\ dialog' = dialog
            /\ \E i \in DOMAIN mounted_list.listbox, c \in BookUnmountCalls :
                 /\ c.mount_point = SelectedMountPoint(mounted_list.listbox[i])
                 /\ mount_threads' =
                       [mount_threads EXCEPT !["unmount"] = [pc |-> "commands", call |-> c]]
    /\ UNCHANGED <<raceUnchanged, mount_device_var, mount_request, mounted_tapes,
                   mounted_list, last_success>>

\* refresh_mounted_list, the handler of the Refresh List button, which the threads
\* also schedule when they succeed (lines 1791, 1845)
GuiRefreshMountedList ==
    /\ \E o \in ListOutcomes :
         mounted_list' = MountedList(mounted_tapes, ListCommand :> o)
    /\ UNCHANGED <<raceUnchanged, mount_device_var, mount_request, dialog, mounted_tapes,
                   raceVars>>

\* what the call of thread t does in a manager holding tapes
CallOf(t, tapes) ==
    IF t = "mount" THEN MountTape(tapes, mount_threads[t].call)
    ELSE UnmountTape(tapes, mount_threads[t].call)

\* lines 196-219 and 240-247: the commands of the thread's call have run
CommandsEnd(t) ==
    /\ mount_threads[t].pc = "commands"
    /\ mount_threads' = [mount_threads EXCEPT ![t].pc = "returned"]
    /\ last_success' =
          IF CallOf(t, mounted_tapes).result.success
          THEN [last_success EXCEPT ![mount_threads[t].call.mount_point] = t]
          ELSE last_success
    /\ UNCHANGED <<raceUnchanged, mount_device_var, mount_request, dialog, mounted_tapes,
                   mounted_list>>

\* lines 221-228 and 249-253, and the thread's report (1787-1795, 1841-1849)
Records(t) ==
    /\ mount_threads[t].pc = "returned"
    /\ mount_threads' = [mount_threads EXCEPT ![t] = [pc |-> "done", call |-> NoCall]]
    /\ LET done == CallOf(t, mounted_tapes)
           error_msg == IF done.result.stderr # EmptyStr THEN done.result.stderr
                        ELSE <<"Unknown error occurred">>
       IN  /\ mounted_tapes' = done.mounted_tapes
           /\ dialog' =
                 IF t = "mount"
                 THEN IF done.result.success
                      THEN InfoDialog(<<"Tape mounted successfully at ">>
                                      \o mount_threads[t].call.mount_point)
                      ELSE ErrorDialog(<<"Failed to mount tape:\n">> \o error_msg)
                 ELSE IF done.result.success
                      THEN InfoDialog(<<"Tape unmounted successfully from ">>
                                      \o mount_threads[t].call.mount_point)
                      ELSE ErrorDialog(<<"Failed to unmount tape:\n">> \o error_msg)
    /\ UNCHANGED <<raceUnchanged, mount_device_var, mount_request, mounted_list,
                   last_success>>

NextRace ==
    \/ GuiMountTapeThread
    \/ GuiUnmountTape
    \/ GuiRefreshMountedList
    \/ \E t \in {"mount", "unmount"} : CommandsEnd(t)
    \/ \E t \in {"mount", "unmount"} : Records(t)

SpecRace == InitRace /\ [][NextRace]_vars

----------------------------------------------------------------------------
(* The log and the auto-refresh timer.  The log is followed here only: the   *)
(* other specifications leave the handlers' log_message calls out.           *)

\* log entries in one session, and pending callbacks
MaxLog == 5
MaxTimers == 2

\* line 1576: what time.strftime returns; every call of the model reads the same second
Timestamp == "2025-01-01 00:00:00"

\* line 1577
LogEntry(message) == <<"[", Timestamp, "] ">> \o message \o <<"\n">>

\* log_message dropping what it cannot show
LogMessageUnbuffered(w, message) ==
    IF w.log_text.exists
    THEN [w EXCEPT !.log_text.entries = Append(@, LogEntry(message))]
    ELSE w

\* log_message in a window w = [log_text, pending]
LogMessage(w, message) ==
    IF w.log_text.exists
    THEN [w EXCEPT !.log_text.entries = Append(@, LogEntry(message))]
    ELSE [w EXCEPT !.pending = [exists |-> TRUE, entries |-> Append(@.entries, LogEntry(message))]]

\* log_message called with each of the messages in turn
RECURSIVE LogAll(_, _)
LogAll(w, messages) ==
    IF messages = <<>> THEN w
    ELSE LogAll(LogMessage(w, Head(messages)), Tail(messages))

\* the handler logs the messages
Logs(messages) ==
    LET w == LogAll([log_text |-> log_text, pending |-> pending_log_messages], messages)
    IN  /\ Len(log_history.entries) + Len(messages) <= MaxLog
        /\ log_text' = w.log_text
        /\ pending_log_messages' = w.pending
        /\ log_history' = [log_history EXCEPT
                              !.entries = @ \o [i \in DOMAIN messages |-> LogEntry(messages[i])]]

StatusRefreshed == <<"Status refreshed">>

\* line 1653: a message of another handler
OtherMessages == {<<"Auto-generated mount point: ">> \o MediaMountPoint}

\* the drives the manager listed when it was made
ListedDrives ==
    /\ dev = TabDev
    /\ mt_installed = TRUE
    /\ \E r \in ScanFields(FreshManager, TabDev, TRUE) :
         /\ tape_drives = r.tape_drives
         /\ physical_drives = r.physical_drives
         /\ permission_issues = r.permission_issues
         /\ single_drive_mode = r.single_drive_mode
         /\ scan_result = r.scan_result
    /\ mount_device_var = EmptyStr
    /\ mount_device_combo = <<>>
    /\ operator_chose = FALSE
    /\ mount_request = EmptyStr
    /\ dialog = NoDialog
    /\ twin = NoTwin
    /\ NoTapeOperation
    /\ history = <<>>
    /\ format_device_var = EmptyStr
    /\ diagnostics_device_var = EmptyStr
    /\ workers = [w \in WorkerNames |-> NoWorker]
    /\ full_diagnostic = NotStarted
    /\ mount_threads = NoMountThreads
    /\ last_success = NoSuccess

\* the constructor at line 436, before setup_ui
InitWindow ==
    /\ ListedDrives
    /\ phase = "gui_init"
    /\ NoWindow

windowUnchanged ==
    <<guiVars, twin, call, commands, result, mounted_tapes, shadow, history, tabVars,
      threadVars, raceVars, themeVars>>

scanUnchanged == <<dev, mt_installed, managerVars, scan_result>>

\* a handler calls log_message
CallLogMessage ==
    /\ \E m \in OtherMessages : Logs(<<m>>)
    /\ UNCHANGED <<windowUnchanged, scanUnchanged, phase, mounted_list, timerVars>>

\* setup_log_tab, called once by setup_ui
SetupLogTab ==
    /\ phase = "gui_init"
    /\ ~log_text.exists
    /\ log_text' = [exists |-> TRUE, entries |-> pending_log_messages.entries]
    /\ pending_log_messages' = Missing
    /\ log_history' = [log_history EXCEPT !.inserted = Len(pending_log_messages.entries)]
    /\ UNCHANGED <<windowUnchanged, scanUnchanged, phase, mounted_list, timerVars>>

\* lines 1910-1912: refresh_status has the manager scan /dev again
RefreshStatus == RefreshDrives(dev, mt_installed)

\* lines 4524-4529: main lists the mounted tapes, refreshes the status, logs the
\* start and enters the main loop
Main ==
    /\ phase = "gui_init"
    /\ log_text.exists
    /\ \E o \in ListOutcomes :
         mounted_list' = MountedList(mounted_tapes, ListCommand :> o)
    /\ RefreshStatus
    /\ Logs(<<StatusRefreshed, <<"LTFS GUI Manager started">>>>)
    /\ phase' = "running"
    /\ UNCHANGED <<windowUnchanged, timerVars>>

\* clear_log, the handler of the Clear Log button
ClearLog ==
    /\ phase = "running"
    /\ log_text' = [log_text EXCEPT !.entries = <<>>]
    /\ log_history' = [entries |-> <<>>, inserted |-> 0]
    /\ UNCHANGED <<windowUnchanged, scanUnchanged, phase, mounted_list, timerVars,
                   pending_log_messages>>

\* the operator clicks the auto-refresh checkbox: toggle_auto_refresh
ToggleAutoRefresh ==
    /\ phase = "running"
    /\ auto_refresh_var' = ~auto_refresh_var
    /\ IF auto_refresh_var'
       THEN /\ auto_refresh_pending < MaxTimers
            /\ RefreshStatus
            /\ auto_refresh_pending' = auto_refresh_pending + 1
            /\ Logs(<<StatusRefreshed, <<"Auto-refresh enabled">>>>)
       ELSE /\ UNCHANGED <<scanUnchanged, auto_refresh_pending>>
            /\ Logs(<<<<"Auto-refresh disabled">>>>)
    /\ UNCHANGED <<windowUnchanged, phase, mounted_list>>

\* a callback of root.after(30000, ...) falls due: auto_refresh_status
AutoRefreshStatus ==
    /\ phase = "running"
    /\ auto_refresh_pending > 0
    /\ IF auto_refresh_var
       THEN /\ RefreshStatus
            /\ Logs(<<StatusRefreshed>>)
            /\ auto_refresh_pending' = auto_refresh_pending
       ELSE /\ UNCHANGED <<scanUnchanged, logVars>>
            /\ auto_refresh_pending' = auto_refresh_pending - 1
    /\ UNCHANGED <<windowUnchanged, phase, mounted_list, auto_refresh_var>>

NextWindow ==
    \/ CallLogMessage
    \/ SetupLogTab
    \/ Main
    \/ ClearLog
    \/ ToggleAutoRefresh
    \/ AutoRefreshStatus

SpecWindow == InitWindow /\ [][NextWindow]_vars

----------------------------------------------------------------------------
(* The themes *)

\* lines 2102-2120
SystemDarkColors ==
    [name |-> "System Default", bg |-> "#2d2d2d", fg |-> "#eeeeee",
     select_bg |-> "#4a90e2", select_fg |-> "#ffffff", entry_bg |-> "#3d3d3d",
     entry_fg |-> "#eeeeee", frame_bg |-> "#2d2d2d", button_bg |-> "#454545",
     text_bg |-> "#1e1e1e", text_fg |-> "#eeeeee", notebook_bg |-> "#2d2d2d",
     tab_bg |-> "#454545", border_color |-> "#666666", warning_fg |-> "#ff7979",
     success_fg |-> "#00b894", info_fg |-> "#a29bfe"]

\* lines 2122-2140
SystemLightColors ==
    [name |-> "System Default", bg |-> "#f5f5f5", fg |-> "#2d3748",
     select_bg |-> "#4a90e2", select_fg |-> "#ffffff", entry_bg |-> "#ffffff",
     entry_fg |-> "#2d3748", frame_bg |-> "#f5f5f5", button_bg |-> "#e2e8f0",
     text_bg |-> "#ffffff", text_fg |-> "#2d3748", notebook_bg |-> "#f5f5f5",
     tab_bg |-> "#e2e8f0", border_color |-> "#cbd5e0", warning_fg |-> "#e53e3e",
     success_fg |-> "#38a169", info_fg |-> "#718096"]

\* what gsettings tells: a dark scheme, another scheme, or nothing because it
\* cannot be run
GsettingsAnswers == {"dark", "light", "unavailable"}

\* detect_system_theme
DetectSystemTheme(gsettings) == IF gsettings = "dark" THEN "dark" ELSE "light"

\* detect_system_colors, in a program holding the theme table
DetectSystemColors(table, gsettings) ==
    IF gsettings = "unavailable" THEN table["light"]
    ELSE IF DetectSystemTheme(gsettings) = "dark" THEN SystemDarkColors
    ELSE SystemLightColors

\* dict.update
Update(old, new) ==
    [k \in DOMAIN old \cup DOMAIN new |-> IF k \in DOMAIN new THEN new[k] ELSE old[k]]

\* the colour keys apply_selected_theme reads, in the order it first reads them
ReadKeys ==
    <<"bg", "tab_bg", "fg", "tab_active", "button_bg", "button_hover", "entry_bg",
      "entry_fg", "text_bg", "text_fg", "select_bg", "select_fg", "warning_fg", "info_fg">>

\* apply_selected_theme: how it ends, and the colour it gives the root window
ApplySelectedTheme(table, name, bg) ==
    LET theme == table[name]
        IsUndefined(k) == k \notin DOMAIN theme
        undefined == SelectSeq(ReadKeys, IsUndefined)
    IN  [result |-> IF undefined = <<>>
                    THEN [theme |-> name, raised |-> FALSE, key |-> ""]
                    ELSE [theme |-> name, raised |-> TRUE, key |-> undefined[1]],
         root_bg |-> IF "bg" \in DOMAIN theme THEN theme["bg"] ELSE bg]

DarkThemes == {"dark", "blue_dark", "high_contrast"}

\* the constructor at line 436, before setup_ui: the system theme is filled and
\* the theme is the saved one
InitTheme ==
    /\ ListedDrives
    /\ phase = "gui_init"
    /\ NoLog
    /\ NoTimers
    /\ \E gsettings \in GsettingsAnswers :
         themes = [BuiltInThemes EXCEPT
                     !["system"] = Update(@, DetectSystemColors(BuiltInThemes, gsettings))]
    /\ current_theme_name \in Range(ThemeOrder)
    /\ dark_mode = (current_theme_name \in DarkThemes)
    /\ theme_combo = [values |-> <<>>, text |-> ""]
    /\ root_bg = ""
    /\ apply_result = NotApplied

themeUnchanged ==
    <<dev, mt_installed, managerVars, scan_result, mount_device_var, mount_device_combo,
      operator_chose, mount_request, twin, call, commands, result,
      mounted_tapes, mounted_list, shadow, history, tabVars, threadVars, raceVars,
      logVars, timerVars>>

\* the handler applies the selected theme
Applies ==
    LET applied == ApplySelectedTheme(themes', current_theme_name', root_bg)
    IN  /\ apply_result' = applied.result
        /\ root_bg' = applied.root_bg

\* lines 437-439: setup_ui fills the dropdown (lines 2154-2161), and the
\* constructor applies the theme
ApplyAtStart ==
    /\ phase = "gui_init"
    /\ theme_combo' = [values |-> [i \in DOMAIN ThemeOrder |-> themes[ThemeOrder[i]]["name"]],
                       text |-> themes[current_theme_name]["name"]]
    /\ UNCHANGED <<themes, current_theme_name, dark_mode>>
    /\ Applies
    /\ phase' = IF apply_result'.raised THEN "dead" ELSE "running"
    /\ UNCHANGED <<themeUnchanged, dialog>>

\* lines 2221-2226: the first key of the table whose theme has the name
ThemeKeys(name) ==
    LET HasName(k) == themes[k]["name"] = name
    IN  SelectSeq(ThemeOrder, HasName)

\* on_theme_changed: the operator picks a name in the dropdown
OnThemeChanged ==
    /\ phase = "running"
    /\ \E i \in DOMAIN theme_combo.values :
         LET name == theme_combo.values[i]
         IN  /\ theme_combo' = [theme_combo EXCEPT !.text = name]
             /\ IF ThemeKeys(name) # <<>>
                THEN /\ current_theme_name' = ThemeKeys(name)[1]
                     /\ dark_mode' = (current_theme_name' \in DarkThemes)
                     /\ themes' = themes
                     /\ Applies
                ELSE UNCHANGED <<themes, current_theme_name, dark_mode, root_bg, apply_result>>
    /\ UNCHANGED <<themeUnchanged, phase, dialog>>

\* auto_detect_theme, the handler of the Auto-Detect button
AutoDetectTheme ==
    /\ phase = "running"
    /\ \E gsettings \in GsettingsAnswers :
         /\ themes' = [themes EXCEPT
                         !["system"] = Update(@, DetectSystemColors(themes, gsettings))]
         /\ dark_mode' = (DetectSystemTheme(gsettings) = "dark")
    /\ current_theme_name' = "system"
    /\ theme_combo' = [theme_combo EXCEPT !.text = themes'["system"]["name"]]
    /\ Applies
    /\ UNCHANGED <<themeUnchanged, phase, dialog>>

\* toggle_theme, the handler of the legacy checkbox
ToggleTheme ==
    /\ phase = "running"
    /\ dark_mode' = ~dark_mode
    /\ UNCHANGED <<themes, current_theme_name, theme_combo>>
    /\ Applies
    /\ UNCHANGED <<themeUnchanged, phase, dialog>>

\* apply_selected_theme_from_tab: the operator picks a theme in the theme tab and
\* presses Apply
ApplySelectedThemeFromTab ==
    /\ phase = "running"
    /\ \E selected_theme \in Range(ThemeOrder) :
         /\ current_theme_name' = selected_theme
         /\ dark_mode' = (selected_theme \in DarkThemes)
    /\ themes' = themes
    /\ Applies
    /\ IF apply_result'.raised
       THEN UNCHANGED <<theme_combo, dialog>>
       ELSE /\ theme_combo' = [theme_combo EXCEPT !.text = themes[current_theme_name']["name"]]
            /\ dialog' = InfoDialog(<<"Successfully applied theme: ",
                                      themes[current_theme_name']["name"]>>)
    /\ UNCHANGED <<themeUnchanged, phase>>

NextTheme ==
    \/ ApplyAtStart
    \/ ApplySelectedThemeFromTab
    \/ OnThemeChanged
    \/ AutoDetectTheme
    \/ ToggleTheme

SpecTheme == InitTheme /\ [][NextTheme]_vars

----------------------------------------------------------------------------
(* Vocabulary of the properties *)

ModeSuffixes == {<<>>, <<"a">>, <<"l">>, <<"m">>}

DigitStrings == {<<x>> : x \in Digits} \cup {<<x, y>> : x \in Digits, y \in Digits}

\* name is <prefix><digits><optional mode letter>
IsNodeName(name, prefix) ==
    \E num \in DigitStrings, sfx \in ModeSuffixes : name = prefix \o num \o sfx

\* ^n?st\d+[alm]?$
IsTapeName(name) ==
    IsNodeName(name, <<"s", "t">>) \/ IsNodeName(name, <<"n", "s", "t">>)

\* path is /dev/<prefix><num><optional mode letter>
IsNodeOfDrive(path, prefix, num) ==
    \E sfx \in ModeSuffixes : path = DevDir \o prefix \o num \o sfx

EndsInModeLetter(path) == path # <<>> /\ path[Len(path)] \in ModeLetters

Listed(name) == DevPath(name) \in Range(tape_drives)

DevicesOf(mode_list) == {mode_list[i].device : i \in 1..Len(mode_list)}

Occurrences(xs, x) == Cardinality({i \in 1..Len(xs) : xs[i] = x})

----------------------------------------------------------------------------
(* Properties of one scan, checked under SpecScan *)

\* C2: in the list returned by refresh_drives no device whose name ends in a mode
\* letter (a, l, m) stands at an earlier index than a device without a mode letter.
C2_BasicBeforeVariants ==
    scan_result = "returned" =>
        \A i, j \in 1..Len(tape_drives) :
            i < j => ~(EndsInModeLetter(tape_drives[i]) /\ ~EndsInModeLetter(tape_drives[j]))

OnlyFourNodes ==
    /\ mt_installed
    /\ Present(dev) = {st0, st0a, nst0, nst0l}
    /\ \A n \in Present(dev) : dev[n] = Healthy

C4_OnlyTapeCharDevices ==
    scan_result = "returned" =>
        \A i \in 1..Len(tape_drives) :
            \E name \in DevNames :
                /\ tape_drives[i] = DevPath(name)
                /\ dev[name].kind = "char"
                /\ name \notin ReservedNames
                /\ IsTapeName(name)

C4_Witness ==
    /\ scan_result = "returned"
    /\ dev[stdin].kind = "char"
    /\ dev[st1x].kind = "char"
    /\ dev[st1a].kind = "other"
    /\ tape_drives = <<DevPath(st1)>>

\* C5: after a scan that returned, each key of physical_drives is 'drive'+N for its
\* drive_number N, its 'rewinding' list holds exactly the listed st<N>[alm] devices
\* and its 'non_rewinding' list exactly the listed nst<N>[alm] devices, each once,
\* and every listed device is filed under some key.
C5_GroupedByDriveNumber ==
    scan_result = "returned" =>
        /\ \A id \in DOMAIN physical_drives :
             LET pd == physical_drives[id]
                 N  == pd.drive_number
             IN  /\ id = PhysicalId(N)
                 /\ DevicesOf(pd.rewinding) =
                        {p \in Range(tape_drives) : IsNodeOfDrive(p, <<"s", "t">>, N)}
                 /\ DevicesOf(pd.non_rewinding) =
                        {p \in Range(tape_drives) : IsNodeOfDrive(p, <<"n", "s", "t">>, N)}
                 /\ Len(pd.rewinding) = Cardinality(DevicesOf(pd.rewinding))
                 /\ Len(pd.non_rewinding) = Cardinality(DevicesOf(pd.non_rewinding))
        /\ \A i \in 1..Len(tape_drives) :
             \E id \in DOMAIN physical_drives :
                 tape_drives[i] \in DevicesOf(physical_drives[id].rewinding)
                                    \cup DevicesOf(physical_drives[id].non_rewinding)

C5_Witness ==
    /\ scan_result = "returned"
    /\ tape_drives = <<DevPath(st0), DevPath(st1), DevPath(st10), DevPath(st1a)>>
    /\ Cardinality(DOMAIN physical_drives) = 3

\* C6: in each 'rewinding' and 'non_rewinding' list of every physical drive a node
\* with mode 'default' stands at index 0 (the first place of the list).
C6_DefaultModeFirst ==
    \A id \in DOMAIN physical_drives :
        /\ \A i \in 1..Len(physical_drives[id].rewinding) :
               physical_drives[id].rewinding[i].mode = "default" => i = 1
        /\ \A i \in 1..Len(physical_drives[id].non_rewinding) :
               physical_drives[id].non_rewinding[i].mode = "default" => i = 1

C6_Witness ==
    /\ scan_result = "returned"
    /\ PhysicalId(<<"1">>) \in DOMAIN physical_drives
    /\ Len(physical_drives[PhysicalId(<<"1">>)].rewinding) = 2
    /\ physical_drives[PhysicalId(<<"1">>)].rewinding[1].mode = "default"
    /\ Listed(st10)

\* C7 as stated: a device other than /dev/st0 is in the returned list only if its
\* 'mt status' probe exited zero within the timeout.
C7_AdmittedOnlyOnProbeSuccess ==
    scan_result = "returned" =>
        \A name \in DevNames :
            (Listed(name) /\ DevPath(name) # primary_device) => dev[name].mt = "exit0"

\* C7 amended: a device other than /dev/st0 is in the returned list only if its
\* probe ended within the timeout and either exited zero or exited non-zero without
\* 'No such device' on stderr.
C7_AdmittedUnlessNoSuchDeviceOrTimeout ==
    scan_result = "returned" =>
        \A name \in DevNames :
            (Listed(name) /\ DevPath(name) # primary_device) =>
                /\ mt_installed
                /\ dev[name].mt \in {"exit0", "other_error"}

C7_Witness ==
    /\ scan_result = "returned"
    /\ dev[st1].kind = "char"
    /\ dev[st1].mt = "timeout"
    /\ ~Listed(st1)
    /\ Listed(st1a)

\* C8: refresh_drives never raises, whatever /dev holds and however the probes end.
C8_ScanNeverRaises ==
    scan_result # "raised"

\* C9: after a scan that returned, a listed device is recorded in permission_issues
\* iff its open-for-read raised a permission error; one whose open succeeded or
\* failed with another OS error is not recorded.
C9_PermissionFailuresOnly ==
    scan_result = "returned" =>
        \A name \in DevNames :
            Listed(name) =>
                /\ dev[name].open = "permission_denied" =>
                       DevPath(name) \in Range(permission_issues)
                /\ dev[name].open \in {"ok", "os_error"} =>
                       DevPath(name) \notin Range(permission_issues)

C9_Witness ==
    /\ scan_result = "returned"
    /\ dev[st1].open = "os_error"
    /\ tape_drives = <<DevPath(st0), DevPath(st0a), DevPath(st1)>>
    /\ permission_issues = <<>>

----------------------------------------------------------------------------
(* Properties of the running application, checked under Spec *)

\* the default node and the 'a' node of the drive of this device are both listed
BothDefaultAndAutoListed(device) ==
    \E prefix \in {<<"s", "t">>, <<"n", "s", "t">>}, num \in DigitStrings :
        /\ IsNodeOfDrive(device, prefix, num)
        /\ DevDir \o prefix \o num \in Range(tape_drives)
        /\ DevDir \o prefix \o num \o <<"a">> \in Range(tape_drives)

PrefersDefaultNode(device) ==
    BothDefaultAndAutoListed(device) => ~EndsInModeLetter(device)

C10_PermissionIssuesExact ==
    scan_result = "returned" =>
        /\ \A name \in DevNames :
               Occurrences(permission_issues, DevPath(name)) =
                   IF Listed(name) /\ dev[name].open = "permission_denied" THEN 1 ELSE 0
        /\ Range(permission_issues) \subseteq {DevPath(name) : name \in DevNames}

C10_Witness ==
    /\ phase = "running"
    /\ scan_result = "returned"
    /\ permission_issues = <<DevPath(st1)>>
    /\ tape_drives = <<DevPath(st0), DevPath(st1)>>

----------------------------------------------------------------------------
\* C11: with no device listed by the latest scan and none selected,
\* get_selected_device gives the empty string, and the mount handler shows an
\* error box and hands nothing to a mount worker
C11_NoDeviceNoMount ==
    [][(GuiMountTape /\ tape_drives = <<>> /\ mount_device_var = EmptyStr)
          => /\ GetSelectedDevice(mount_device_var, tape_drives) = EmptyStr
             /\ mount_request' = EmptyStr
             /\ dialog'.kind = "error"]_vars

C11_Witness ==
    /\ tape_drives = <<>>
    /\ mount_device_var = EmptyStr
    /\ mount_request = EmptyStr
    /\ dialog = ErrorDialog(NoDeviceMessage)

----------------------------------------------------------------------------
IsDigit(c) == c \in Digits

\* the drive numbers the listed devices carry: the digits of each node's name
ListedDriveNumbers == {SelectSeq(tape_drives[i], IsDigit) : i \in DOMAIN tape_drives}

\* C20: after a scan that returned, single_drive_mode holds iff the listed devices
\* carry exactly one drive number, which is iff physical_drives has exactly one
\* key; it is false with no device and with two or more drive numbers
C20_SingleDriveModeIffOneDrive ==
    scan_result = "returned" =>
        LET numbers == Cardinality(ListedDriveNumbers)
        IN  /\ single_drive_mode <=> numbers = 1
            /\ single_drive_mode <=> Cardinality(DOMAIN physical_drives) = 1
            /\ tape_drives = <<>> => ~single_drive_mode
            /\ numbers >= 2 => ~single_drive_mode

C20_Witness ==
    /\ scan_result = "returned"
    /\ single_drive_mode
    /\ Len(tape_drives) >= 2
    /\ Cardinality(ListedDriveNumbers) = 1

----------------------------------------------------------------------------
\* C19: two refresh_drives calls that return, made against the same /dev entries
\* and probe outcomes by managers with different histories, leave tape_drives,
\* physical_drives, permission_issues and single_drive_mode identical
C19_ScanFunctionOfInputs ==
    (twin.same_inputs /\ scan_result = "returned") =>
        /\ twin.fields.scan_result = "returned"
        /\ twin.fields.tape_drives = tape_drives
        /\ twin.fields.physical_drives = physical_drives
        /\ twin.fields.permission_issues = permission_issues
        /\ twin.fields.single_drive_mode = single_drive_mode

C19_Witness ==
    /\ twin.same_inputs
    /\ twin.prior_differed
    /\ scan_result = "returned"
    /\ permission_issues # <<>>
    /\ single_drive_mode

----------------------------------------------------------------------------
(* Vocabulary of the properties about tape operations *)

\* the process a command line started exited with code 0
ExitedZero(o) == ~o.raised /\ o.returncode = 0

\* the triple that reports what a process did
ReportOf(o) ==
    IF o.raised
    THEN [raised |-> FALSE, success |-> FALSE, stdout |-> EmptyStr, stderr |-> o.exception]
    ELSE [raised |-> FALSE, success |-> o.returncode = 0, stdout |-> o.stdout,
          stderr |-> o.stderr]

Finished(op) == call.op = op /\ call.state = "done"

\* the option variants of the mount under way, as listed
Variants == MountCommands(call.device, call.mount_point, call.options)

IsVariant(command) == \E i \in DOMAIN Variants : Variants[i] = command

\* the variants attempted so far, in the order of their attempts
AttemptedVariants == SelectSeq(commands, IsVariant)

\* the mount point exists when the variants are to be tried
MountPointReady ==
    IF StartsWith(call.mount_point, MediaDir)
    THEN ExitedZero(call.env[MkdirCommand(call.mount_point)])
    ELSE call.makedirs = "ok"

OnlyLastVariantSucceeds ==
    /\ \A i \in 1..(Len(Variants) - 1) : ~ExitedZero(call.env[Variants[i]])
    /\ ExitedZero(call.env[Variants[Len(Variants)]])

\* C12: a mount whose variants all fail except the last has attempted every
\* variant exactly once, in the listed order, and returns success
C12_AllVariantsTriedLastWins ==
    (Finished("mount") /\ MountPointReady /\ OnlyLastVariantSucceeds) =>
        /\ AttemptedVariants = Variants
        /\ ~result.raised
        /\ result.success

C12_Witness ==
    /\ Finished("mount")
    /\ MountPointReady
    /\ OnlyLastVariantSucceeds
    /\ Len(AttemptedVariants) = Len(Variants)
    /\ result.success

\* C13: whatever the variants do, those attempted are an initial part of the list
\* in its order, all for the call's device and mount point; none is attempted after
\* one that succeeded; and the call returns success iff an attempted one succeeded
C13_StopsAtFirstSuccess ==
    Finished("mount") =>
        /\ Len(AttemptedVariants) <= Len(Variants)
        /\ AttemptedVariants = SubSeq(Variants, 1, Len(AttemptedVariants))
        /\ \A i \in 1..(Len(AttemptedVariants) - 1) :
               ~ExitedZero(call.env[AttemptedVariants[i]])
        /\ ~result.raised =>
               (result.success <=>
                   \E i \in DOMAIN AttemptedVariants :
                       ExitedZero(call.env[AttemptedVariants[i]]))

C13_Witness ==
    /\ Finished("mount")
    /\ Len(AttemptedVariants) = 2
    /\ result.success
    /\ ExitedZero(call.env[Variants[3]])

----------------------------------------------------------------------------
UnmountTools == UnmountCommands(call.mount_point)

UmountFailsFusermountSucceeds ==
    /\ ~ExitedZero(call.env[UnmountTools[1]])
    /\ ExitedZero(call.env[UnmountTools[2]])

\* C14: when umount fails and fusermount -u then succeeds, unmount_tape returns
\* success with the output of the fusermount -u run, and issues nothing after it
C14_SecondUnmountToolWins ==
    (Finished("unmount") /\ UmountFailsFusermountSucceeds) =>
        /\ result = [raised |-> FALSE, success |-> TRUE,
                     stdout |-> call.env[UnmountTools[2]].stdout,
                     stderr |-> call.env[UnmountTools[2]].stderr]
        /\ commands = <<UnmountTools[1], UnmountTools[2]>>

C14_Witness ==
    /\ Finished("unmount")
    /\ UmountFailsFusermountSucceeds
    /\ ~call.env[UnmountTools[3]].raised
    /\ result.success
    /\ result.stderr # EmptyStr

----------------------------------------------------------------------------
\* C15: run_command hands back a triple for every command and never raises:
\* success iff the process exited with code 0, and when the launch failed
\* (False, "", text of the exception)
C15_RunCommandReports ==
    Finished("run") =>
        /\ ~result.raised
        /\ result.success <=> ExitedZero(call.env[call.command])
        /\ call.env[call.command].raised =>
               result = [raised |-> FALSE, success |-> FALSE, stdout |-> EmptyStr,
                         stderr |-> call.env[call.command].exception]

C15_Witness ==
    /\ Finished("run")
    /\ call.env[call.command].raised
    /\ ~result.success
    /\ result.stderr = call.env[call.command].exception

----------------------------------------------------------------------------
EveryVariantExitsNonZero ==
    \A i \in DOMAIN Variants :
        ~call.env[Variants[i]].raised /\ call.env[Variants[i]].returncode # 0

\* C16: when every mount variant exits non-zero, the stderr that mount_tape returns,
\* and that the mount worker shows, is what the last ltfs command wrote to stderr
C16_StderrOfLastVariant ==
    (Finished("mount") /\ AttemptedVariants = Variants /\ EveryVariantExitsNonZero) =>
        /\ result.stderr = call.env[Variants[Len(Variants)]].stderr
        /\ dialog = ErrorDialog(<<"Failed to mount tape:\n">>
                                \o call.env[Variants[Len(Variants)]].stderr)

----------------------------------------------------------------------------
IsMkltfs(command) == command # <<>> /\ command[1] = "mkltfs -d "

MkltfsRuns == SelectSeq(commands, IsMkltfs)

\* C17: a format_tape call runs mkltfs exactly once, whatever sg_inq and mkltfs do,
\* and returns the triple of that run as run_command reports it
C17_FormatRunsMkltfsOnce ==
    Finished("format") =>
        /\ Len(MkltfsRuns) = 1
        /\ result = ReportOf(call.env[MkltfsRuns[1]])

C17_Witness ==
    /\ Finished("format")
    /\ ~ExitedZero(call.env[SgInqCommand(call.device)])
    /\ Len(MkltfsRuns) = 1
    /\ ~call.env[MkltfsRuns[1]].raised
    /\ ~result.success

----------------------------------------------------------------------------
\* C18: in two program states that differ in mounted_tapes only, list_mounted_tapes
\* and refresh_mounted_list give the same text and the same listbox items for the
\* same output of 'mount | grep ltfs'
C18_ListingFromMountTableOnly ==
    call.after \in {"ran", "listed"} =>
        /\ mounted_list.info = shadow.info
        /\ mounted_list.listbox = shadow.listbox

C18_Witness ==
    /\ call.after \in {"ran", "listed"}
    /\ mounted_tapes # shadow.mounted_tapes
    /\ Len(mounted_list.listbox) = 2
    /\ mounted_list.listbox = shadow.listbox

----------------------------------------------------------------------------
\* the mount point of the mount under way cannot be created: sudo mkdir -p fails
\* for a path under /media/, os.makedirs raises PermissionError for another path
MountPointFails ==
    IF StartsWith(call.mount_point, MediaDir)
    THEN ~ExitedZero(call.env[MkdirCommand(call.mount_point)])
    ELSE call.makedirs = "permission_error"

IsRewindOrVariant(command) == command = RewindCommand(call.device) \/ IsVariant(command)

\* C24: when the mount point cannot be created, mount_tape returns failure with a
\* mount-point message, issues neither the rewind nor an ltfs command, and leaves
\* mounted_tapes as it was
C24_NoMountWithoutMountPoint ==
    [][(MountWorker /\ MountPointFails) =>
          /\ ~result'.raised
          /\ ~result'.success
          /\ result'.stderr # EmptyStr
          /\ result'.stderr[1] \in {"Failed to create mount point: ",
                                    "Permission denied creating mount point: "}
          /\ SelectSeq(commands', IsRewindOrVariant) = <<>>
          /\ mounted_tapes' = mounted_tapes]_vars

C24_Witness ==
    /\ Finished("mount")
    /\ MountPointFails
    /\ ExitedZero(call.env[Variants[1]])
    /\ commands = <<MkdirCommand(call.mount_point)>>
    /\ ~result.success

----------------------------------------------------------------------------
\* C30: after every refresh of the drive list by the GUI whose scan returned, the
\* device held in the mount tab is empty or is in the list that scan returned
C30_DefaultDeviceIsListed ==
    [][(GuiRefreshDrives /\ scan_result' = "returned") =>
          (mount_device_var' = EmptyStr \/ mount_device_var' \in Range(tape_drives'))]_vars

----------------------------------------------------------------------------
\* the successful calls on mount point p so far, in order
SuccessesOn(p) ==
    LET IsSuccessOn(h) == h.success /\ h.mount_point = p
    IN  SelectSeq(history, IsSuccessOn)

LatestCall == history[Len(history)]

\* C23: after any sequence of mount_tape and unmount_tape calls made one after the
\* other, p is a key of mounted_tapes iff the latest successful call on p was a
\* mount_tape, and the entry holds that call's device; a failed call leaves
\* mounted_tapes as it was, and so does a successful unmount of an unrecorded p
C23_BookkeepingFollowsSuccesses ==
    /\ [](\A p \in BookMountPoints :
            LET on == SuccessesOn(p)
            IN  /\ p \in DOMAIN mounted_tapes <=>
                       (on # <<>> /\ on[Len(on)].op = "mount")
                /\ p \in DOMAIN mounted_tapes =>
                       mounted_tapes[p].device = on[Len(on)].device)
    /\ [][/\ ~LatestCall'.success => mounted_tapes' = mounted_tapes
          /\ (LatestCall'.op = "unmount"
                  /\ LatestCall'.mount_point \notin DOMAIN mounted_tapes)
               => mounted_tapes' = mounted_tapes]_vars

C23_Witness ==
    /\ Len(history) = 3
    /\ history[1].op = "mount" /\ history[1].success
    /\ history[2].op = "unmount" /\ history[2].success
    /\ history[2].mount_point = history[1].mount_point
    /\ history[3].op = "mount" /\ ~history[3].success
    /\ history[3].mount_point = history[1].mount_point
    /\ mounted_tapes = NoTapes

----------------------------------------------------------------------------
\* the command line names the device
Names(command, device) ==
    \E i \in 1..Len(command) :
       /\ i + Len(device) - 1 <= Len(command)
       /\ SubSeq(command, i, i + Len(device) - 1) = device

\* the worker is running a command line against the device
RunsAgainst(name, device) == Running(name) /\ Names(Current(name), device)

\* C21: nothing keeps two workers off one device: while a format worker runs a
\* command on a device, a status check of that device can be started and runs its
\* command at once, and the other way round
C21_NoMutualExclusion ==
    /\ (Running("format") /\ ~Running("status")
            /\ diagnostics_device_var = workers["format"].device)
         => ENABLED (CheckDriveStatus /\ workers'["status"].todo # <<>>)
    /\ (Running("status") /\ ~Running("format")
            /\ format_device_var = workers["status"].device)
         => ENABLED (GuiFormatTape /\ workers'["format"].todo # <<>>)

C21_Witness ==
    /\ Running("format") /\ IsMkltfs(Current("format"))
    /\ RunsAgainst("format", diagnostics_device_var)
    /\ RunsAgainst("status", diagnostics_device_var)

\* C26: a format worker is started only by the Format Tape button with a device in
\* the field and the question about that device answered yes, mkltfs is run by no
\* other worker and on no other device, and with an empty field or the answer no
\* the button starts no worker
C26_FormatFollowsConfirmation ==
    [][/\ (~Running("format") /\ workers'["format"].todo # <<>>) =>
             /\ format_device_var # EmptyStr
             /\ workers'["format"].device = format_device_var
             /\ \E label \in FormatLabels :
                  dialog' = ConfirmDialog(FormatQuestion(format_device_var, label), TRUE)
       /\ \A w \in WorkerNames :
            (workers'[w].todo # <<>> /\ IsMkltfs(workers'[w].todo[1])) =>
               /\ w = "format"
               /\ Running("format")
               /\ SubSeq(workers'[w].todo[1], 2, 1 + Len(workers[w].device))
                     = workers[w].device
       /\ (GuiFormatTape /\ (format_device_var = EmptyStr \/ dialog'.kind = "no")) =>
             workers' = workers]_vars

C26_Witness ==
    /\ Running("format") /\ IsMkltfs(Current("format"))
    /\ dialog = ConfirmDialog(FormatQuestion(workers["format"].device, EmptyStr), TRUE)

\* C25: no two sub-tests of the full diagnostic run commands against the device at
\* the same time
C25_SubTestsInSequence ==
    \A a, b \in Range(SubTests) :
       (a # b /\ workers[a].device = workers[b].device) =>
          ~(RunsAgainst(a, workers[a].device) /\ RunsAgainst(b, workers[b].device))

----------------------------------------------------------------------------
\* C28: once the mount and the unmount thread have finished, every key of
\* mounted_tapes is a mount point whose latest successful command was a mount
C28_BookkeepingAfterRace ==
    (\A t \in {"mount", "unmount"} : mount_threads[t].pc \in {"none", "done"})
       => \A p \in DOMAIN mounted_tapes : last_success[p] = "mount"

----------------------------------------------------------------------------
\* C27: no message is lost or reordered around the making of the log widget: until
\* the widget exists the buffer holds every entry in the order of the calls, and
\* from then on there is no buffer and the widget holds every entry since the log
\* was last cleared, those of the buffer first
C27_LogKeepsEveryMessage ==
    IF log_text.exists
    THEN /\ ~pending_log_messages.exists
         /\ log_text.entries = log_history.entries
    ELSE /\ pending_log_messages.entries = log_history.entries
         /\ pending_log_messages.exists <=> log_history.entries # <<>>

C27_Witness ==
    /\ log_text.exists
    /\ log_history.inserted = 2
    /\ Len(log_text.entries) = 4
    /\ log_text.entries[3] = LogEntry(StatusRefreshed)

\* C29: at most one auto_refresh_status callback is pending
C29_SingleTimerChain == auto_refresh_pending <= 1

\* C22: every theme of the table can be applied
C22_EveryThemeApplies ==
    \A name \in DOMAIN themes : ~ApplySelectedTheme(themes, name, root_bg).result.raised

====
